---- MODULE Spec2Model ----
(***************************************************************************)
(* slurm_inspector: the sinfo / squeue record parsers, the shared          *)
(* SlurmStatus behind a Mutex, the poller thread (check_slurm_status) and  *)
(* the request handlers (handle_request).                                  *)
(*                                                                         *)
(* Text is modelled as a sequence of one-character strings, so that        *)
(* lines(), split_whitespace(), to_lowercase() and parse() do the work     *)
(* they do in the program.                                                 *)
(***************************************************************************)
EXTENDS Integers, Sequences, FiniteSets, TLC

\* ------------------------------------------------------------------------
\* Bounds of the model
\* ------------------------------------------------------------------------
\* Number of concurrent request handler threads.
NumReaders == 2
\* Poller cycles that get a number of their own (later cycles share the last).
MaxCycle == 3
\* Number of lines of the generated parser inputs.
MaxLines == 2

\* ------------------------------------------------------------------------
\* Characters and strings (std::str)
\* ------------------------------------------------------------------------
UpperChars ==
    << "A", "B", "C", "D", "E", "F", "G", "H", "I", "J", "K", "L", "M",
       "N", "O", "P", "Q", "R", "S", "T", "U", "V", "W", "X", "Y", "Z" >>

LowerChars ==
    << "a", "b", "c", "d", "e", "f", "g", "h", "i", "j", "k", "l", "m",
       "n", "o", "p", "q", "r", "s", "t", "u", "v", "w", "x", "y", "z" >>

DigitChars == << "0", "1", "2", "3", "4", "5", "6", "7", "8", "9" >>

IsDigit(c) == \E i \in 1..10 : DigitChars[i] = c

DigitVal(c) == (CHOOSE i \in 1..10 : DigitChars[i] = c) - 1

\* char::is_whitespace, on the characters of the model
is_whitespace(c) == c \in {" ", "\t", "\n", "\r"}

to_lowercase_char(c) ==
    IF \E i \in 1..26 : UpperChars[i] = c
    THEN LowerChars[CHOOSE i \in 1..26 : UpperChars[i] = c]
    ELSE c

to_uppercase_char(c) ==
    IF \E i \in 1..26 : LowerChars[i] = c
    THEN UpperChars[CHOOSE i \in 1..26 : LowerChars[i] = c]
    ELSE c

\* str::to_lowercase
to_lowercase(s) == [i \in 1..Len(s) |-> to_lowercase_char(s[i])]

\* str::to_uppercase
to_uppercase(s) == [i \in 1..Len(s) |-> to_uppercase_char(s[i])]

\* The elements of a finite set of integers in increasing order.
SortedSeq(S) ==
    [k \in 1..Cardinality(S) |->
        CHOOSE i \in S : Cardinality({j \in S : j < i}) = k - 1]

\* str::lines: the text split at "\n", the final line ending optional, a
\* "\r" before the "\n" belonging to the line ending.
lines(text) ==
    LET n == Len(text)
        nl == {i \in 1..n : text[i] = "\n"}
        ends == nl \cup (IF n > 0 /\ text[n] # "\n" THEN {n + 1} ELSE {})
        e == SortedSeq(ends)
        first(k) == IF k = 1 THEN 1 ELSE e[k - 1] + 1
        last(k) == IF e[k] \in nl /\ e[k] > first(k) /\ text[e[k] - 1] = "\r"
                   THEN e[k] - 2
                   ELSE e[k] - 1
    IN  [k \in 1..Len(e) |-> SubSeq(text, first(k), last(k))]

\* str::split_whitespace: the maximal runs of non-whitespace characters
split_whitespace(line) ==
    LET n == Len(line)
        starts == {i \in 1..n : /\ ~is_whitespace(line[i])
                                /\ (i = 1 \/ is_whitespace(line[i - 1]))}
        s == SortedSeq(starts)
        stop(i) == CHOOSE j \in i..n :
                      /\ (j = n \/ is_whitespace(line[j + 1]))
                      /\ \A k \in i..j : ~is_whitespace(line[k])
    IN  [k \in 1..Len(s) |-> SubSeq(line, s[k], stop(s[k]))]

\* str::split(','): the pieces between the commas, empty pieces included
split_comma(s) ==
    LET n == Len(s)
        commas == {i \in 1..n : s[i] = ","}
        c == SortedSeq(commas)
        first(k) == IF k = 1 THEN 1 ELSE c[k - 1] + 1
        last(k) == IF k = Len(c) + 1 THEN n ELSE c[k] - 1
    IN  [k \in 1..(Len(c) + 1) |-> SubSeq(s, first(k), last(k))]

\* Option<T>
None == << >>
Some(v) == << v >>

\* ------------------------------------------------------------------------
\* str::parse::<u32>() and str::parse::<f64>()
\* A number is held as its canonical decimal numeral (a u32 can exceed the
\* integers of the checker): no sign, no leading zero.
\* ------------------------------------------------------------------------
AllDigits(s) == \A i \in 1..Len(s) : IsDigit(s[i])

RECURSIVE StripLeadingZeros(_)
StripLeadingZeros(ds) ==
    IF Len(ds) > 1 /\ ds[1] = "0" THEN StripLeadingZeros(Tail(ds)) ELSE ds

RECURSIVE StripTrailingZeros(_)
StripTrailingZeros(ds) ==
    IF Len(ds) > 1 /\ ds[Len(ds)] = "0"
    THEN StripTrailingZeros(SubSeq(ds, 1, Len(ds) - 1))
    ELSE ds

\* u32::MAX = 4294967295
U32MaxDigits == << "4", "2", "9", "4", "9", "6", "7", "2", "9", "5" >>

\* a <= b for canonical numerals
NumeralLeq(a, b) ==
    \/ Len(a) < Len(b)
    \/ /\ Len(a) = Len(b)
       /\ \/ a = b
          \/ \E i \in 1..Len(a) :
                /\ \A j \in 1..(i - 1) : a[j] = b[j]
                /\ DigitVal(a[i]) < DigitVal(b[i])

\* Variant: the unparsable numeral replaced by 0 (unwrap_or) where the
\* program keeps the None of ok().
parse_u32_or_zero(s) ==
    LET body == IF Len(s) > 0 /\ s[1] = "+" THEN Tail(s) ELSE s
    IN  IF Len(body) = 0 \/ ~AllDigits(body) THEN Some(<<"0">>)
        ELSE IF ~NumeralLeq(StripLeadingZeros(body), U32MaxDigits) THEN Some(<<"0">>)
        ELSE Some(StripLeadingZeros(body))

\* <u32 as FromStr>::from_str(s).ok(): an optional "+", then at least one
\* digit, and no overflow.
parse_u32(s) ==
    LET body == IF Len(s) > 0 /\ s[1] = "+" THEN Tail(s) ELSE s
    IN  IF Len(body) = 0 \/ ~AllDigits(body) THEN None
        ELSE IF ~NumeralLeq(StripLeadingZeros(body), U32MaxDigits) THEN None
        ELSE Some(StripLeadingZeros(body))

RECURSIVE DecValue(_)
DecValue(ds) ==
    IF Len(ds) = 0 THEN 0
    ELSE 10 * DecValue(SubSeq(ds, 1, Len(ds) - 1)) + DigitVal(ds[Len(ds)])

\* <f64 as FromStr>::from_str(s).ok() on decimal literals
\*   [sign] digits [ "." digits ] [ ("e"|"E") [sign] digits ]
\* with at least one digit in the mantissa, and on "inf", "infinity" and
\* "nan".  A finite value is held as sign, significant digits and decimal
\* exponent (value = 0.d1 d2 ... * 10^exp), exact for the short literals of
\* the model; a value beyond the range of f64 is an infinity or a zero.
Special(neg, kind) == Some([neg |-> neg, kind |-> kind, digits |-> << >>, exp |-> 0])

parse_f64(s) ==
    LET neg == Len(s) > 0 /\ s[1] = "-"
        body == IF Len(s) > 0 /\ s[1] \in {"+", "-"} THEN Tail(s) ELSE s
        n == Len(body)
        low == to_lowercase(body)
        epos == {i \in 1..n : low[i] = "e"}
        me == IF epos = {} THEN n + 1 ELSE CHOOSE i \in epos : \A j \in epos : i <= j
        mant == SubSeq(body, 1, me - 1)
        expo == SubSeq(body, me + 1, n)
        dots == {i \in 1..Len(mant) : mant[i] = "."}
        dp == IF dots = {} THEN Len(mant) + 1 ELSE CHOOSE i \in dots : \A j \in dots : i <= j
        ip == SubSeq(mant, 1, dp - 1)
        fp == SubSeq(mant, dp + 1, Len(mant))
        eneg == Len(expo) > 0 /\ expo[1] = "-"
        edig == IF Len(expo) > 0 /\ expo[1] \in {"+", "-"} THEN Tail(expo) ELSE expo
        wellformed ==
            /\ AllDigits(ip) /\ AllDigits(fp) /\ Len(ip) + Len(fp) > 0
            /\ (epos # {} => (Len(edig) > 0 /\ AllDigits(edig)))
        all == ip \o fp
        lead == Len(all) - Len(StripLeadingZeros(all))
        sig == StripTrailingZeros(StripLeadingZeros(all))
        emag == StripLeadingZeros(edig)
        huge == epos # {} /\ Len(emag) > 3
        e10 == IF epos = {} \/ huge THEN 0
               ELSE IF eneg THEN 0 - DecValue(emag) ELSE DecValue(emag)
        exp == Len(ip) - lead + e10
    IN  IF low \in { <<"i", "n", "f">>, <<"i", "n", "f", "i", "n", "i", "t", "y">> }
            THEN Special(neg, "inf")
        ELSE IF low = <<"n", "a", "n">>
            THEN Special(FALSE, "nan")
        ELSE IF ~wellformed THEN None
        ELSE IF sig = <<"0">>
            THEN Special(neg, "zero")
        ELSE IF (huge /\ ~eneg) \/ (~huge /\ exp > 309)
            THEN Special(neg, "inf")
        ELSE IF (huge /\ eneg) \/ (~huge /\ exp < 0 - 324)
            THEN Special(neg, "zero")
        ELSE Some([neg |-> neg, kind |-> "finite", digits |-> sig, exp |-> exp])

Str_up == <<"u", "p">>
Str_down == <<"d", "o", "w", "n">>
Str_drained == <<"d", "r", "a", "i", "n", "e", "d">>
Str_draining == <<"d", "r", "a", "i", "n", "i", "n", "g">>
Str_none == <<"n", "o", "n", "e">>
Str_alloc == <<"a", "l", "l", "o", "c">>
Str_allocated == <<"a", "l", "l", "o", "c", "a", "t", "e", "d">>
Str_completing == <<"c", "o", "m", "p", "l", "e", "t", "i", "n", "g">>
Str_fail == <<"f", "a", "i", "l">>
Str_failing == <<"f", "a", "i", "l", "i", "n", "g">>
Str_idle == <<"i", "d", "l", "e">>
Str_maint == <<"m", "a", "i", "n", "t">>
Str_dependency == <<"d", "e", "p", "e", "n", "d", "e", "n", "c", "y">>
Str_partitiondown == <<"p", "a", "r", "t", "i", "t", "i", "o", "n", "d", "o", "w", "n">>
Str_partitionnodelimit == <<"p", "a", "r", "t", "i", "t", "i", "o", "n", "n", "o", "d", "e", "l", "i", "m", "i", "t">>
Str_partitiontimelimit == <<"p", "a", "r", "t", "i", "t", "i", "o", "n", "t", "i", "m", "e", "l", "i", "m", "i", "t">>
Str_priority == <<"p", "r", "i", "o", "r", "i", "t", "y">>
Str_resources == <<"r", "e", "s", "o", "u", "r", "c", "e", "s">>
Str_nodedown == <<"n", "o", "d", "e", "d", "o", "w", "n">>
Str_badconstraints == <<"b", "a", "d", "c", "o", "n", "s", "t", "r", "a", "i", "n", "t", "s">>
Str_systemfailure == <<"s", "y", "s", "t", "e", "m", "f", "a", "i", "l", "u", "r", "e">>
Str_joblaunchfailure == <<"j", "o", "b", "l", "a", "u", "n", "c", "h", "f", "a", "i", "l", "u", "r", "e">>
Str_nonzeroexitcode == <<"n", "o", "n", "z", "e", "r", "o", "e", "x", "i", "t", "c", "o", "d", "e">>
Str_timelimit == <<"t", "i", "m", "e", "l", "i", "m", "i", "t">>
Str_inactivelimit == <<"i", "n", "a", "c", "t", "i", "v", "e", "l", "i", "m", "i", "t">>
Str_cancelled == <<"c", "a", "n", "c", "e", "l", "l", "e", "d">>
Str_completed == <<"c", "o", "m", "p", "l", "e", "t", "e", "d">>
Str_configuring == <<"c", "o", "n", "f", "i", "g", "u", "r", "i", "n", "g">>
Str_failed == <<"f", "a", "i", "l", "e", "d">>
Str_node_fail == <<"n", "o", "d", "e", "_", "f", "a", "i", "l">>
Str_pending == <<"p", "e", "n", "d", "i", "n", "g">>
Str_preempted == <<"p", "r", "e", "e", "m", "p", "t", "e", "d">>
Str_running == <<"r", "u", "n", "n", "i", "n", "g">>
Str_suspended == <<"s", "u", "s", "p", "e", "n", "d", "e", "d">>
Str_timeout == <<"t", "i", "m", "e", "o", "u", "t">>
Str_unknown == <<"u", "n", "k", "n", "o", "w", "n">>
Str_nodefail == <<"n", "o", "d", "e", "f", "a", "i", "l">>
Str_na == <<"N", "/", "A">>
Str_upp == <<"u", "p", "p">>
Str_allocate == <<"a", "l", "l", "o", "c", "a", "t", "e">>

SinfoTestData ==
    <<
    "\n", " ", " ", " ", " ", " ", " ", " ", " ", "e", "s", "d", " ", "u", "p", " ", "n", "o",
    "d", "e", "0", "1", " ", "n", "o", "d", "e", "0", "1", " ", "n", "o", "n", "e", " ", "0",
    ".", "2", "2", " ", "i", "d", "l", "e", " ", "2", " ", "2", " ", "2", "\n", " ", " ", " ",
    " ", " ", " ", " ", " ", "e", "s", "d", " ", "u", "p", " ", "n", "o", "d", "e", "0", "2",
    " ", "n", "o", "d", "e", "0", "2", " ", "n", "o", "n", "e", " ", "0", ".", "0", " ", "i",
    "d", "l", "e", " ", "2", " ", "8", " ", "2", "\n", " ", " ", " ", " ", " ", " ", " ", " ",
    "e", "s", "d", " ", "d", "o", "w", "n", " ", "n", "o", "d", "e", "0", "3", " ", "n", "o",
    "d", "e", "0", "3", " ", "d", "o", "w", "n", " ", "-", " ", "-", " ", "-", " ", "-", " ",
    "-", "\n", " ", " ", " ", " ", " ", " ", " ", " ", "e", "s", "d", " ", "u", "p", " ", "n",
    "o", "d", "e", "0", "4", " ", "n", "o", "d", "e", "0", "4", " ", "n", "o", "n", "e", " ",
    "0", ".", "7", "1", " ", "i", "d", "l", "e", " ", "1", " ", "1", " ", "1", "\n", " ", " ",
    " ", " ", " ", " ", " ", " ", "e", "s", "d", " ", "u", "p", " ", "n", "o", "d", "e", "0",
    "5", " ", "n", "o", "d", "e", "0", "5", " ", "n", "o", "n", "e", " ", "0", ".", "0", " ",
    "a", "l", "l", "o", "c", " ", "1", " ", "1", " ", "1", "\n", " ", " ", " ", " ", " ", " ",
    " ", " ", "e", "s", "d", " ", "u", "p", " ", "n", "o", "d", "e", "0", "6", " ", "n", "o",
    "d", "e", "0", "6", " ", "n", "o", "n", "e", " ", "0", ".", "0", " ", "c", "o", "m", "p",
    "l", "e", "t", "i", "n", "g", " ", "1", " ", "1", " ", "1", "\n", " ", " ", " ", " ", " ",
    " ", " ", " ", "e", "s", "d", " ", "u", "p", " ", "n", "o", "d", "e", "0", "7", " ", "n",
    "o", "d", "e", "0", "7", " ", "n", "o", "n", "e", " ", "0", ".", "0", " ", "d", "r", "a",
    "i", "n", "e", "d", " ", "1", " ", "1", " ", "1", "\n", " ", " ", " ", " ", " ", " ", " ",
    " ", "e", "s", "d", " ", "u", "p", " ", "n", "o", "d", "e", "0", "8", " ", "n", "o", "d",
    "e", "0", "8", " ", "n", "o", "n", "e", " ", "0", ".", "0", " ", "d", "r", "a", "i", "n",
    "i", "n", "g", " ", "1", " ", "1", " ", "1", "\n", " ", " ", " ", " ", " ", " ", " ", " ",
    "e", "s", "d", " ", "u", "p", " ", "n", "o", "d", "e", "0", "9", " ", "n", "o", "d", "e",
    "0", "9", " ", "n", "o", "n", "e", " ", "0", ".", "0", " ", "f", "a", "i", "l", " ", "1",
    " ", "1", " ", "1", "\n", " ", " ", " ", " ", " ", " ", " ", " ", "e", "s", "d", " ", "u",
    "p", " ", "n", "o", "d", "e", "1", "0", " ", "n", "o", "d", "e", "1", "0", " ", "n", "o",
    "n", "e", " ", "0", ".", "0", " ", "f", "a", "i", "l", "i", "n", "g", " ", "1", " ", "1",
    " ", "1", "\n", " ", " ", " ", " ", " ", " ", " ", " ", "e", "s", "d", " ", "u", "p", " ",
    "n", "o", "d", "e", "1", "1", " ", "n", "o", "d", "e", "1", "1", " ", "n", "o", "n", "e",
    " ", "0", ".", "0", " ", "m", "a", "i", "n", "t", " ", "1", " ", "1", " ", "1", "\n", " ",
    " ", " ", " ", " ", " ", " ", " ", "e", "s", "d", " ", "u", "p", " ", "n", "o", "d", "e",
    "1", "2", " ", "n", "o", "d", "e", "1", "2", " ", "n", "o", "n", "e", " ", "0", ".", "0",
    " ", "u", "n", "k", "n", "o", "w", "n", " ", "1", " ", "1", " ", "1", "\n", " ", " ", " ",
    " " >>

SqueueTestData ==
    <<
    "\n", " ", " ", " ", " ", " ", " ", " ", " ", "n", "o", "d", "e", "0", "1", " ", "1", " ",
    "2", " ", "1", " ", "N", "/", "A", " ", "*", " ", "1", " ", "*", " ", "s", "m", "a", "l",
    "l", "_", "t", "e", "s", "t", "0", "1", " ", "*", " ", "N", "/", "A", " ", "1", ":", "0",
    "0", " ", "n", "o", "d", "e", "0", "1", " ", "0", ".", "9", " ", "N", "o", "n", "e", " ",
    "2", "0", "0", "0", "-", "0", "1", "-", "0", "1", "T", "0", "9", ":", "0", "0", ":", "0",
    "0", " ", "R", "U", "N", "N", "I", "N", "G", " ", "u", "s", "e", "r", "0", "1", " ", "1",
    "0", "0", "0", "\n", " ", " ", " ", " ", " ", " ", " ", " ", "n", "o", "d", "e", "0", "1",
    " ", "1", " ", "2", " ", "2", " ", "N", "/", "A", " ", "*", " ", "2", " ", "*", " ", "s",
    "m", "a", "l", "l", "_", "t", "e", "s", "t", "0", "2", " ", "*", " ", "N", "/", "A", " ",
    "1", ":", "1", "5", " ", "n", "o", "d", "e", "0", "1", ",", "n", "o", "d", "e", "0", "2",
    " ", "0", ".", "9", " ", "N", "o", "n", "e", " ", "2", "0", "0", "0", "-", "0", "1", "-",
    "0", "1", "T", "0", "9", ":", "0", "0", ":", "0", "0", " ", "c", "a", "n", "c", "e", "l",
    "l", "e", "d", " ", "u", "s", "e", "r", "0", "2", " ", "1", "0", "0", "1", "\n", " ", " ",
    " ", " ", " ", " ", " ", " ", "n", "o", "d", "e", "0", "1", " ", "1", " ", "2", " ", "4",
    " ", "N", "/", "A", " ", "*", " ", "3", " ", "*", " ", "s", "m", "a", "l", "l", "_", "t",
    "e", "s", "t", "0", "3", " ", "*", " ", "N", "/", "A", " ", "2", ":", "0", "0", " ", "n",
    "o", "d", "e", "0", "1", " ", "0", ".", "1", " ", "N", "o", "n", "e", " ", "2", "0", "0",
    "0", "-", "0", "1", "-", "0", "1", "T", "0", "9", ":", "0", "0", ":", "0", "0", " ", "c",
    "o", "m", "p", "l", "e", "t", "e", "d", " ", "u", "s", "e", "r", "0", "3", " ", "1", "0",
    "0", "2", "\n", " ", " ", " ", " ", " ", " ", " ", " ", "n", "o", "d", "e", "0", "2", " ",
    "1", " ", "2", " ", "1", " ", "N", "/", "A", " ", "*", " ", "4", " ", "*", " ", "s", "m",
    "a", "l", "l", "_", "t", "e", "s", "t", "0", "4", " ", "*", " ", "N", "/", "A", " ", "2",
    ":", "0", "0", " ", "n", "o", "d", "e", "0", "1", " ", "0", ".", "2", " ", "N", "o", "n",
    "e", " ", "2", "0", "0", "0", "-", "0", "1", "-", "0", "1", "T", "0", "9", ":", "0", "0",
    ":", "0", "0", " ", "c", "o", "n", "f", "i", "g", "u", "r", "i", "n", "g", " ", "u", "s",
    "e", "r", "0", "4", " ", "1", "0", "0", "3", "\n", " ", " ", " ", " ", " ", " ", " ", " ",
    "n", "o", "d", "e", "0", "3", " ", "1", " ", "2", " ", "1", " ", "N", "/", "A", " ", "*",
    " ", "5", " ", "*", " ", "s", "m", "a", "l", "l", "_", "t", "e", "s", "t", "0", "5", " ",
    "*", " ", "N", "/", "A", " ", "2", ":", "4", "6", " ", "n", "o", "d", "e", "0", "1", " ",
    "0", ".", "9", " ", "N", "o", "n", "e", " ", "2", "0", "0", "0", "-", "0", "1", "-", "0",
    "1", "T", "0", "9", ":", "0", "0", ":", "0", "0", " ", "C", "o", "m", "p", "l", "e", "t",
    "i", "n", "g", " ", "u", "s", "e", "r", "0", "5", " ", "1", "0", "0", "4", "\n", " ", " ",
    " ", " ", " ", " ", " ", " ", "n", "o", "d", "e", "0", "4", " ", "1", " ", "2", " ", "6",
    " ", "N", "/", "A", " ", "*", " ", "6", " ", "*", " ", "s", "m", "a", "l", "l", "_", "t",
    "e", "s", "t", "0", "6", " ", "*", " ", "N", "/", "A", " ", "3", ":", "1", "2", " ", "n",
    "o", "d", "e", "0", "3", ",", "n", "o", "d", "e", "0", "4", ",", "n", "o", "d", "e", "0",
    "5", " ", "0", ".", "9", " ", "N", "o", "n", "e", " ", "2", "0", "0", "0", "-", "0", "1",
    "-", "0", "1", "T", "0", "9", ":", "0", "0", ":", "0", "0", " ", "F", "A", "I", "L", "E",
    "D", " ", "u", "s", "e", "r", "0", "5", " ", "1", "0", "0", "4", "\n", " ", " ", " ", " ",
    " ", " ", " ", " ", "n", "o", "d", "e", "0", "5", " ", "1", " ", "2", " ", "1", " ", "N",
    "/", "A", " ", "*", " ", "7", " ", "*", " ", "s", "m", "a", "l", "l", "_", "t", "e", "s",
    "t", "0", "7", " ", "*", " ", "N", "/", "A", " ", "4", ":", "0", "2", " ", "n", "o", "d",
    "e", "0", "1", " ", "0", ".", "9", " ", "N", "o", "n", "e", " ", "2", "0", "0", "0", "-",
    "0", "1", "-", "0", "1", "T", "0", "9", ":", "0", "0", ":", "0", "0", " ", "n", "o", "d",
    "e", "f", "a", "i", "l", " ", "u", "s", "e", "r", "0", "1", " ", "1", "0", "0", "0", "\n",
    " ", " ", " ", " ", " ", " ", " ", " ", "n", "o", "d", "e", "0", "6", " ", "1", " ", "2",
    " ", "1", " ", "N", "/", "A", " ", "*", " ", "8", " ", "*", " ", "s", "m", "a", "l", "l",
    "_", "t", "e", "s", "t", "0", "8", " ", "*", " ", "N", "/", "A", " ", "5", ":", "0", "0",
    " ", "n", "o", "d", "e", "0", "1", " ", "0", ".", "9", " ", "N", "o", "n", "e", " ", "2",
    "0", "0", "0", "-", "0", "1", "-", "0", "1", "T", "0", "9", ":", "0", "0", ":", "0", "0",
    " ", "P", "e", "n", "d", "i", "n", "g", " ", "u", "s", "e", "r", "0", "2", " ", "1", "0",
    "0", "1", "\n", " ", " ", " ", " ", " ", " ", " ", " ", "n", "o", "d", "e", "0", "7", " ",
    "1", " ", "2", " ", "2", " ", "N", "/", "A", " ", "*", " ", "9", " ", "*", " ", "s", "m",
    "a", "l", "l", "_", "t", "e", "s", "t", "0", "9", " ", "*", " ", "N", "/", "A", " ", "1",
    ":", "0", "0", " ", "n", "o", "d", "e", "0", "1", " ", "0", ".", "5", " ", "N", "o", "n",
    "e", " ", "2", "0", "0", "0", "-", "0", "1", "-", "0", "1", "T", "0", "9", ":", "0", "0",
    ":", "0", "0", " ", "p", "r", "e", "e", "m", "p", "t", "e", "d", " ", "u", "s", "e", "r",
    "0", "2", " ", "1", "0", "0", "1", "\n", " ", " ", " ", " ", " ", " ", " ", " ", "n", "o",
    "d", "e", "0", "8", " ", "1", " ", "2", " ", "2", " ", "N", "/", "A", " ", "*", " ", "1",
    "0", " ", "*", " ", "s", "m", "a", "l", "l", "_", "t", "e", "s", "t", "1", "0", " ", "*",
    " ", "N", "/", "A", " ", "2", ":", "0", "1", " ", "n", "o", "d", "e", "0", "1", " ", "0",
    ".", "6", " ", "N", "o", "n", "e", " ", "2", "0", "0", "0", "-", "0", "1", "-", "0", "1",
    "T", "0", "9", ":", "0", "0", ":", "0", "0", " ", "s", "u", "s", "p", "e", "n", "d", "e",
    "d", " ", "u", "s", "e", "r", "0", "3", " ", "1", "0", "0", "2", "\n", " ", " ", " ", " ",
    " ", " ", " ", " ", "n", "o", "d", "e", "0", "8", " ", "1", " ", "2", " ", "1", "0", " ",
    "N", "/", "A", " ", "*", " ", "1", "1", " ", "*", " ", "s", "m", "a", "l", "l", "_", "t",
    "e", "s", "t", "1", "1", " ", "*", " ", "N", "/", "A", " ", "2", ":", "0", "6", " ", "n",
    "o", "d", "e", "0", "1", " ", "0", ".", "9", " ", "N", "o", "n", "e", " ", "2", "0", "0",
    "0", "-", "0", "1", "-", "0", "1", "T", "0", "9", ":", "0", "0", ":", "0", "0", " ", "t",
    "i", "m", "e", "o", "u", "t", " ", "u", "s", "e", "r", "0", "4", " ", "1", "0", "0", "3",
    "\n", " ", " ", " ", " ", " ", " ", " ", " ", "n", "o", "d", "e", "0", "8", " ", "1", " ",
    "2", " ", "6", " ", "N", "/", "A", " ", "*", " ", "1", "2", " ", "*", " ", "s", "m", "a",
    "l", "l", "_", "t", "e", "s", "t", "1", "2", " ", "*", " ", "N", "/", "A", " ", "4", ":",
    "0", "9", " ", "n", "o", "d", "e", "0", "1", " ", "0", ".", "2", " ", "N", "o", "n", "e",
    " ", "2", "0", "0", "0", "-", "0", "1", "-", "0", "1", "T", "0", "9", ":", "0", "0", ":",
    "0", "0", " ", "U", "N", "K", "N", "O", "W", "N", " ", "u", "s", "e", "r", "0", "5", " ",
    "1", "0", "0", "4", "\n", " ", " ", " ", " " >>

\* sinfo_util.rs:125
Line_pn01 ==
    <<
    "l", "o", "n", "g", "r", "u", "n", " ", "u", "p", " ", "n", "o", "d", "e", "0", "1", ".",
    "f", "o", "o", ".", "b", "a", "r", " ", "n", "o", "d", "e", "0", "1", " ", "n", "o", "n",
    "e", " ", "0", ".", "2", "2", " ", "i", "d", "l", "e", " ", "2", " ", "2", " ", "2" >>
\* sinfo_util.rs:144, second line
Line_pn02 ==
    <<
    "l", "o", "n", "g", "r", "u", "n", " ", "u", "p", " ", "n", "o", "d", "e", "0", "2", ".",
    "f", "o", "o", ".", "b", "a", "r", " ", "n", "o", "d", "e", "0", "2", " ", "d", "o", "w",
    "n", " ", "0", ".", "1", " ", "i", "d", "l", "e", " ", "1", " ", "2", " ", "4" >>
\* sinfo_util.rs:63
Line_pn03 ==
    <<
    "e", "s", "d", " ", "d", "o", "w", "n", " ", "n", "o", "d", "e", "0", "3", " ", "n", "o",
    "d", "e", "0", "3", " ", "d", "o", "w", "n", " ", "-", " ", "-", " ", "-", " ", "-", " ",
    "-" >>
\* ten tokens, irregular whitespace and case
Line_pn_ws ==
    <<
    " ", " ", "e", "s", "d", "\t", "U", "P", " ", " ", "n", "o", "d", "e", "1", "2", " ", "n",
    "o", "d", "e", "1", "2", " ", "N", "O", "N", "E", " ", "+", "7", " ", "U", "n", "k", "n",
    "o", "w", "n", " ", "0", "1", " ", "1", " ", "1", " ", "\r" >>
\* sinfo_util.rs:120
Line_3 == <<"1", " ", "2", " ", "3">>
\* squeue_util.rs:139
Line_4 == <<"1", " ", "2", " ", "3", " ", "4">>
\* nine tokens
Line_pn9 ==
    <<
    "e", "s", "d", " ", "u", "p", " ", "n", "o", "d", "e", "0", "4", " ", "n", "o", "d", "e",
    "0", "4", " ", "n", "o", "n", "e", " ", "0", ".", "7", "1", " ", "i", "d", "l", "e", " ",
    "1", " ", "1" >>
\* eleven tokens
Line_pn11 ==
    <<
    "e", "s", "d", " ", "u", "p", " ", "n", "o", "d", "e", "0", "4", " ", "n", "o", "d", "e",
    "0", "4", " ", "n", "o", "n", "e", " ", "0", ".", "7", "1", " ", "i", "d", "l", "e", " ",
    "1", " ", "1", " ", "1", " ", "1" >>
\* squeue_util.rs:165
Line_job01 ==
    <<
    "a", "g", "a", "s", "s", "i", "z", " ", "1", " ", "2", " ", "1", " ", "N", "/", "A", " ",
    "*", " ", "8", "2", " ", "*", " ", "s", "m", "a", "l", "l", "_", "t", "e", "s", "t", " ",
    "*", " ", "N", "/", "A", " ", "2", ":", "4", "6", " ", "a", "g", "a", "s", "s", "i", "z",
    " ", "0", ".", "9", "9", "9", "9", "8", "4", "7", "4", "0", "7", "4", "5", "2", "7", " ",
    "N", "o", "n", "e", " ", "2", "0", "1", "5", "-", "1", "1", "-", "1", "2", "T", "0", "9",
    ":", "5", "1", ":", "3", "2", " ", "R", "U", "N", "N", "I", "N", "G", " ", "w", "i", "l",
    "l", "i", " ", "1", "0", "0", "0" >>
\* squeue_util.rs:166, twenty tokens
Line_job20 ==
    <<
    "8", "2", " ", "a", "g", "a", "s", "s", "i", "z", " ", "1", " ", "2", " ", "1", " ", "N",
    "/", "A", " ", "*", " ", "8", "2", " ", "*", " ", "s", "m", "a", "l", "l", "_", "t", "e",
    "s", "t", " ", "*", " ", "N", "/", "A", " ", "2", ":", "4", "6", " ", "a", "g", "a", "s",
    "s", "i", "z", " ", "0", ".", "9", "9", "9", "9", "8", "4", "7", "4", "0", "7", "4", "5",
    "2", "7", " ", "N", "o", "n", "e", " ", "2", "0", "1", "5", "-", "1", "1", "-", "1", "2",
    "T", "0", "9", ":", "5", "1", ":", "3", "2", " ", "R", "U", "N", "N", "I", "N", "G", " ",
    "w", "i", "l", "l", "i", " ", "1", "0", "0", "0" >>
\* squeue_util.rs:72
Line_job02 ==
    <<
    "n", "o", "d", "e", "0", "1", " ", "1", " ", "2", " ", "2", " ", "N", "/", "A", " ", "*",
    " ", "2", " ", "*", " ", "s", "m", "a", "l", "l", "_", "t", "e", "s", "t", "0", "2", " ",
    "*", " ", "N", "/", "A", " ", "1", ":", "1", "5", " ", "n", "o", "d", "e", "0", "1", ",",
    "n", "o", "d", "e", "0", "2", " ", "0", ".", "9", " ", "N", "o", "n", "e", " ", "2", "0",
    "0", "0", "-", "0", "1", "-", "0", "1", "T", "0", "9", ":", "0", "0", ":", "0", "0", " ",
    "c", "a", "n", "c", "e", "l", "l", "e", "d", " ", "u", "s", "e", "r", "0", "2", " ", "1",
    "0", "0", "1" >>

\* the items of Line_pn01
Items_pn01 ==
    <<
       <<"l", "o", "n", "g", "r", "u", "n">>,
       <<"u", "p">>,
       <<"n", "o", "d", "e", "0", "1", ".", "f", "o", "o", ".", "b", "a", "r">>,
       <<"n", "o", "d", "e", "0", "1">>,
       <<"n", "o", "n", "e">>,
       <<"0", ".", "2", "2">>,
       <<"i", "d", "l", "e">>,
       <<"2">>,
       <<"2">>,
       <<"2">> >>
\* the items of Line_pn02
Items_pn02 ==
    <<
       <<"l", "o", "n", "g", "r", "u", "n">>,
       <<"u", "p">>,
       <<"n", "o", "d", "e", "0", "2", ".", "f", "o", "o", ".", "b", "a", "r">>,
       <<"n", "o", "d", "e", "0", "2">>,
       <<"d", "o", "w", "n">>,
       <<"0", ".", "1">>,
       <<"i", "d", "l", "e">>,
       <<"1">>,
       <<"2">>,
       <<"4">> >>
\* the items of Line_pn03
Items_pn03 ==
    <<
       <<"e", "s", "d">>,
       <<"d", "o", "w", "n">>,
       <<"n", "o", "d", "e", "0", "3">>,
       <<"n", "o", "d", "e", "0", "3">>,
       <<"d", "o", "w", "n">>,
       <<"-">>,
       <<"-">>,
       <<"-">>,
       <<"-">>,
       <<"-">> >>
\* the items of Line_pn_ws
Items_pn_ws ==
    <<
       <<"e", "s", "d">>,
       <<"U", "P">>,
       <<"n", "o", "d", "e", "1", "2">>,
       <<"n", "o", "d", "e", "1", "2">>,
       <<"N", "O", "N", "E">>,
       <<"+", "7">>,
       <<"U", "n", "k", "n", "o", "w", "n">>,
       <<"0", "1">>,
       <<"1">>,
       <<"1">> >>
\* the items of Line_3
Items_3 ==
    <<
       <<"1">>,
       <<"2">>,
       <<"3">> >>
\* the items of Line_4
Items_4 ==
    <<
       <<"1">>,
       <<"2">>,
       <<"3">>,
       <<"4">> >>
\* the items of Line_pn9
Items_pn9 ==
    <<
       <<"e", "s", "d">>,
       <<"u", "p">>,
       <<"n", "o", "d", "e", "0", "4">>,
       <<"n", "o", "d", "e", "0", "4">>,
       <<"n", "o", "n", "e">>,
       <<"0", ".", "7", "1">>,
       <<"i", "d", "l", "e">>,
       <<"1">>,
       <<"1">> >>
\* the items of Line_pn11
Items_pn11 ==
    <<
       <<"e", "s", "d">>,
       <<"u", "p">>,
       <<"n", "o", "d", "e", "0", "4">>,
       <<"n", "o", "d", "e", "0", "4">>,
       <<"n", "o", "n", "e">>,
       <<"0", ".", "7", "1">>,
       <<"i", "d", "l", "e">>,
       <<"1">>,
       <<"1">>,
       <<"1">>,
       <<"1">> >>
\* the items of Line_job01
Items_job01 ==
    <<
       <<"a", "g", "a", "s", "s", "i", "z">>,
       <<"1">>,
       <<"2">>,
       <<"1">>,
       <<"N", "/", "A">>,
       <<"*">>,
       <<"8", "2">>,
       <<"*">>,
       <<"s", "m", "a", "l", "l", "_", "t", "e", "s", "t">>,
       <<"*">>,
       <<"N", "/", "A">>,
       <<"2", ":", "4", "6">>,
       <<"a", "g", "a", "s", "s", "i", "z">>,
       <<"0", ".", "9", "9", "9", "9", "8", "4", "7", "4", "0", "7", "4", "5", "2", "7">>,
       <<"N", "o", "n", "e">>,
       <<
         "2", "0", "1", "5", "-", "1", "1", "-", "1", "2", "T", "0", "9", ":", "5", "1", ":",
         "3", "2" >>,
       <<"R", "U", "N", "N", "I", "N", "G">>,
       <<"w", "i", "l", "l", "i">>,
       <<"1", "0", "0", "0">> >>
\* the items of Line_job20
Items_job20 ==
    <<
       <<"8", "2">>,
       <<"a", "g", "a", "s", "s", "i", "z">>,
       <<"1">>,
       <<"2">>,
       <<"1">>,
       <<"N", "/", "A">>,
       <<"*">>,
       <<"8", "2">>,
       <<"*">>,
       <<"s", "m", "a", "l", "l", "_", "t", "e", "s", "t">>,
       <<"*">>,
       <<"N", "/", "A">>,
       <<"2", ":", "4", "6">>,
       <<"a", "g", "a", "s", "s", "i", "z">>,
       <<"0", ".", "9", "9", "9", "9", "8", "4", "7", "4", "0", "7", "4", "5", "2", "7">>,
       <<"N", "o", "n", "e">>,
       <<
         "2", "0", "1", "5", "-", "1", "1", "-", "1", "2", "T", "0", "9", ":", "5", "1", ":",
         "3", "2" >>,
       <<"R", "U", "N", "N", "I", "N", "G">>,
       <<"w", "i", "l", "l", "i">>,
       <<"1", "0", "0", "0">> >>
\* the items of Line_job02
Items_job02 ==
    <<
       <<"n", "o", "d", "e", "0", "1">>,
       <<"1">>,
       <<"2">>,
       <<"2">>,
       <<"N", "/", "A">>,
       <<"*">>,
       <<"2">>,
       <<"*">>,
       <<"s", "m", "a", "l", "l", "_", "t", "e", "s", "t", "0", "2">>,
       <<"*">>,
       <<"N", "/", "A">>,
       <<"1", ":", "1", "5">>,
       <<"n", "o", "d", "e", "0", "1", ",", "n", "o", "d", "e", "0", "2">>,
       <<"0", ".", "9">>,
       <<"N", "o", "n", "e">>,
       <<
         "2", "0", "0", "0", "-", "0", "1", "-", "0", "1", "T", "0", "9", ":", "0", "0", ":",
         "0", "0" >>,
       <<"c", "a", "n", "c", "e", "l", "l", "e", "d">>,
       <<"u", "s", "e", "r", "0", "2">>,
       <<"1", "0", "0", "1">> >>

\* ------------------------------------------------------------------------
\* Field parsers (sinfo_util.rs, squeue_util.rs)
\* ------------------------------------------------------------------------
\* Variant: only "down" is Down, every other token is Up.
str_to_availability_default_up(avail) ==
    LET s == to_lowercase(avail)
    IN  IF s = Str_down THEN "Down" ELSE "Up"

str_to_availability(avail) ==
    LET s == to_lowercase(avail)
    IN  IF s = Str_up THEN "Up" ELSE "Down"

str_to_error(error) ==
    LET s == to_lowercase(error)
    IN  CASE s = Str_down -> "Down"
          [] s = Str_drained -> "Drained"
          [] s = Str_draining -> "Draining"
          [] s = Str_none -> "None"
          [] OTHER -> "Unknown"

str_to_node_state(n_state) ==
    LET s == to_lowercase(n_state)
    IN  CASE s = Str_alloc \/ s = Str_allocated -> "Allocated"
          [] s = Str_completing -> "Completing"
          [] s = Str_down -> "Down"
          [] s = Str_drained -> "Drained"
          [] s = Str_draining -> "Draining"
          [] s = Str_fail -> "Fail"
          [] s = Str_failing -> "Failing"
          [] s = Str_idle -> "Idle"
          [] s = Str_maint -> "Maint"
          [] OTHER -> "Unknown"

str_to_state_reason(reason) ==
    LET s == to_lowercase(reason)
    IN  CASE s = Str_dependency -> "Dependency"
          [] s = Str_none -> "None"
          [] s = Str_partitiondown -> "PartitionDown"
          [] s = Str_partitionnodelimit -> "PartitionNodeLimit"
          [] s = Str_partitiontimelimit -> "PartitionTimeLimit"
          [] s = Str_priority -> "Priority"
          [] s = Str_resources -> "Resources"
          [] s = Str_nodedown -> "NodeDown"
          [] s = Str_badconstraints -> "BadConstraints"
          [] s = Str_systemfailure -> "SystemFailure"
          [] s = Str_joblaunchfailure -> "JobLaunchFailure"
          [] s = Str_nonzeroexitcode -> "NonZeroExitCode"
          [] s = Str_timelimit -> "TimeLimit"
          [] s = Str_inactivelimit -> "InactiveLimit"
          [] OTHER -> "Unknown"

\* Variant: the match on the token as given, without to_lowercase.
str_to_job_state_exact(state) ==
    LET s == state
    IN  CASE s = Str_cancelled -> "Cancelled"
          [] s = Str_completed -> "Completed"
          [] s = Str_configuring -> "Configuring"
          [] s = Str_completing -> "Completing"
          [] s = Str_failed -> "Failed"
          [] s = Str_node_fail -> "NodeFail"
          [] s = Str_pending -> "Pending"
          [] s = Str_preempted -> "Preempted"
          [] s = Str_running -> "Running"
          [] s = Str_suspended -> "Suspended"
          [] s = Str_timeout -> "Timeout"
          [] OTHER -> "Unknown"

str_to_job_state(state) ==
    LET s == to_lowercase(state)
    IN  CASE s = Str_cancelled -> "Cancelled"
          [] s = Str_completed -> "Completed"
          [] s = Str_configuring -> "Configuring"
          [] s = Str_completing -> "Completing"
          [] s = Str_failed -> "Failed"
          [] s = Str_node_fail -> "NodeFail"
          [] s = Str_pending -> "Pending"
          [] s = Str_preempted -> "Preempted"
          [] s = Str_running -> "Running"
          [] s = Str_suspended -> "Suspended"
          [] s = Str_timeout -> "Timeout"
          [] OTHER -> "Unknown"

\* Variant: without the early return for the empty string.
str_to_list_of_nodes_no_guard(nodes) == split_comma(nodes)

str_to_list_of_nodes(nodes) ==
    IF Len(nodes) = 0 THEN << >> ELSE split_comma(nodes)

\* ------------------------------------------------------------------------
\* Record parsers
\* ------------------------------------------------------------------------
\* The PartitionNodeInfo pushed for an accepted line (items[0] is items[1] here).
\* Variant: hostname and node taken from each other's item.
PartitionNodeInfo_swapped(items) ==
    [ partition    |-> items[1],
      availability |-> str_to_availability(items[2]),
      hostname     |-> items[4],
      node         |-> items[3],
      error        |-> str_to_error(items[5]),
      cpu_load     |-> parse_f64(items[6]),
      node_state   |-> str_to_node_state(items[7]),
      node_sockets |-> parse_u32(items[8]),
      node_cores   |-> parse_u32(items[9]),
      node_threads |-> parse_u32(items[10]) ]

PartitionNodeInfo(items) ==
    [ partition    |-> items[1],
      availability |-> str_to_availability(items[2]),
      hostname     |-> items[3],
      node         |-> items[4],
      error        |-> str_to_error(items[5]),
      cpu_load     |-> parse_f64(items[6]),
      node_state   |-> str_to_node_state(items[7]),
      node_sockets |-> parse_u32(items[8]),
      node_cores   |-> parse_u32(items[9]),
      node_threads |-> parse_u32(items[10]) ]

\* Variant: a line with more items than fields is accepted.
pn_line_valid_at_least(items) == Len(items) >= 10

\* "Skip invalid lines": the test of the number of items
pn_line_valid(items) == Len(items) = 10

\* Variant: `break` in place of `continue` at a line that is skipped.
RECURSIVE pn_loop_break(_, _, _)
pn_loop_break(ls, i, result) ==
    IF i > Len(ls) THEN result
    ELSE LET items == split_whitespace(ls[i])
         IN  IF ~pn_line_valid(items)
             THEN result
             ELSE pn_loop_break(ls, i + 1, Append(result, PartitionNodeInfo(items)))

RECURSIVE pn_loop(_, _, _)
pn_loop(ls, i, result) ==
    IF i > Len(ls) THEN result
    ELSE LET items == split_whitespace(ls[i])
         IN  IF ~pn_line_valid(items)
             THEN pn_loop(ls, i + 1, result)
             ELSE pn_loop(ls, i + 1, Append(result, PartitionNodeInfo(items)))

get_pn_info_util(sinfo_output) == pn_loop(lines(sinfo_output), 1, << >>)

\* The JobInfo pushed for an accepted line.
JobInfo(items) ==
    [ executing_host  |-> items[1],
      minimum_cpu     |-> parse_u32(items[2]),
      num_cpu         |-> parse_u32(items[3]),
      num_nodes       |-> parse_u32(items[4]),
      job_array_id    |-> parse_u32(items[5]),
      num_sockets     |-> parse_u32(items[6]),
      job_id          |-> parse_u32(items[7]),
      num_cores       |-> parse_u32(items[8]),
      job_name        |-> items[9],
      num_threads     |-> parse_u32(items[10]),
      job_array_index |-> parse_u32(items[11]),
      run_time        |-> items[12],
      list_of_nodes   |-> str_to_list_of_nodes(items[13]),
      priority        |-> parse_f64(items[14]),
      state_reason    |-> str_to_state_reason(items[15]),
      start_time      |-> items[16],
      job_state       |-> str_to_job_state(items[17]),
      user_name       |-> items[18],
      user_id         |-> parse_u32(items[19]) ]

\* "Skip invalid line": the test of the number of items
job_line_valid(items) == Len(items) = 19

RECURSIVE job_loop(_, _, _)
job_loop(ls, i, result) ==
    IF i > Len(ls) THEN result
    ELSE LET items == split_whitespace(ls[i])
         IN  IF ~job_line_valid(items)
             THEN job_loop(ls, i + 1, result)
             ELSE job_loop(ls, i + 1, Append(result, JobInfo(items)))

get_job_info_util(squeue_output) == job_loop(lines(squeue_output), 1, << >>)

\* The fixtures of --test
get_partition_node_info_test == get_pn_info_util(SinfoTestData)

get_job_info_test == get_job_info_util(SqueueTestData)

\* ------------------------------------------------------------------------
\* Command adapters
\* ------------------------------------------------------------------------
\* What Command::output() can give: Err (the process could not be started
\* or waited for), or Ok with the exit status and stdout of the process
\* (status and stdout mean nothing when result is "Err").
CmdErr == [result |-> "Err", status |-> 0, stdout |-> << >>]
CmdOk(code, out) == [result |-> "Ok", status |-> code, stdout |-> out]
NoCall == [result |-> "NoCall", status |-> 0, stdout |-> << >>]

NL == << "\n" >>

\* The behaviours of "sinfo" the model draws from.
SinfoOutcomes ==
    { CmdErr,
      CmdOk(0, Line_pn01 \o NL \o Line_pn02 \o NL),
      CmdOk(0, Line_3 \o NL),
      CmdOk(1, Line_pn03 \o NL) }

\* The behaviours of "squeue" the model draws from.
SqueueOutcomes ==
    { CmdErr,
      CmdOk(0, Line_job01 \o NL),
      CmdOk(0, Line_4 \o NL),
      CmdOk(1, Line_job02 \o NL) }

\* String::from_utf8_lossy(&val.stdout).to_string() on Ok, String::new() on Err
call_sinfo(output) ==
    IF output.result = "Ok" THEN output.stdout ELSE << >>

call_squeue(output) ==
    IF output.result = "Ok" THEN output.stdout ELSE << >>

get_partition_node_info(output) == get_pn_info_util(call_sinfo(output))

get_job_info(output) == get_job_info_util(call_squeue(output))

\* ------------------------------------------------------------------------
\* Time (time::now, time::strftime)
\* ------------------------------------------------------------------------
\* The local time when the program starts.
StartTm == [tm_year |-> 2015, tm_mon |-> 12, tm_mday |-> 20,
            tm_hour |-> 9, tm_min |-> 58]

\* now() after secs seconds (within the hour after the start)
now(secs) ==
    LET m == StartTm.tm_min + secs \div 60
    IN  [StartTm EXCEPT !.tm_hour = @ + m \div 60, !.tm_min = m % 60]

Pad2(n) == << DigitChars[((n \div 10) % 10) + 1], DigitChars[(n % 10) + 1] >>

Pad4(n) == Pad2(n \div 100) \o Pad2(n % 100)

\* strftime("%Y.%m.%d - %H:%M", tm).unwrap()
strftime(tm) ==
    Pad4(tm.tm_year) \o <<".">> \o Pad2(tm.tm_mon) \o <<".">> \o Pad2(tm.tm_mday)
        \o <<" ", "-", " ">> \o Pad2(tm.tm_hour) \o <<":">> \o Pad2(tm.tm_min)

\* ------------------------------------------------------------------------
\* The report (status_to_html)
\* ------------------------------------------------------------------------
Repeat(c, n) == [i \in 1..n |-> c]

\* format!("{}", val) of a u32
fmt_u32(v) == v

\* format!("{}", val) of a f64
fmt_f64(v) ==
    LET sign == IF v.neg THEN <<"-">> ELSE << >>
        d == v.digits
        k == Len(d)
    IN  CASE v.kind = "nan" -> <<"N", "a", "N">>
          [] v.kind = "inf" -> sign \o <<"i", "n", "f">>
          [] v.kind = "zero" -> sign \o <<"0">>
          [] OTHER ->
                IF v.exp <= 0 THEN sign \o <<"0", ".">> \o Repeat("0", 0 - v.exp) \o d
                ELSE IF v.exp >= k THEN sign \o d \o Repeat("0", v.exp - k)
                ELSE sign \o SubSeq(d, 1, v.exp) \o <<".">> \o SubSeq(d, v.exp + 1, k)

Dash == <<"-">>

\* Variant: the absent value shown as the "N/A" of squeue.
cell_u32_na(opt) == IF opt = None THEN <<"N", "/", "A">> ELSE fmt_u32(opt[1])

\* opt.map_or("<td>-</td>", |val| format!("<td>{}</td>", val))
cell_u32(opt) == IF opt = None THEN Dash ELSE fmt_u32(opt[1])

cell_f64(opt) == IF opt = None THEN Dash ELSE fmt_f64(opt[1])

\* The <tr> of a PartitionNodeInfo: the text of each <td>, and the id of the
\* availability cell.
node_row(node) ==
    [ partition    |-> node.partition,
      availability |-> IF node.availability = "Up" THEN "Up" ELSE "Down",
      availability_id |-> IF node.availability = "Up" THEN "" ELSE "partition_down",
      hostname     |-> node.hostname,
      node         |-> node.node,
      error        |-> node.error,
      cpu_load     |-> cell_f64(node.cpu_load),
      node_state   |-> node.node_state,
      node_sockets |-> cell_u32(node.node_sockets),
      node_cores   |-> cell_u32(node.node_cores),
      node_threads |-> cell_u32(node.node_threads) ]

RECURSIVE join_nodes(_)
join_nodes(l) ==
    IF Len(l) = 0 THEN << >> ELSE Head(l) \o <<",">> \o join_nodes(Tail(l))

\* The <tr> of a JobInfo.
job_row(job) ==
    [ executing_host  |-> job.executing_host,
      minimum_cpu     |-> cell_u32(job.minimum_cpu),
      num_cpu         |-> cell_u32(job.num_cpu),
      num_nodes       |-> cell_u32(job.num_nodes),
      job_array_id    |-> cell_u32(job.job_array_id),
      num_sockets     |-> cell_u32(job.num_sockets),
      job_id          |-> cell_u32(job.job_id),
      num_cores       |-> cell_u32(job.num_cores),
      job_name        |-> job.job_name,
      num_threads     |-> cell_u32(job.num_threads),
      job_array_index |-> cell_u32(job.job_array_index),
      run_time        |-> job.run_time,
      list_of_nodes   |-> join_nodes(job.list_of_nodes),
      priority        |-> cell_f64(job.priority),
      state_reason    |-> job.state_reason,
      start_time      |-> job.start_time,
      job_state       |-> job.job_state,
      user_name       |-> job.user_name,
      user_id         |-> cell_u32(job.user_id) ]

\* A document under construction: nothing pushed yet.
EmptyDoc == [kind |-> "none", last_update |-> << >>,
             node_rows |-> << >>, job_rows |-> << >>]

\* "<h1>Could not lock Mutex!</h1>"
ErrorDoc == [kind |-> "error", last_update |-> << >>,
             node_rows |-> << >>, job_rows |-> << >>]

\* status_to_html, in the order in which it reads the fields of the status
html_header(doc, st) == [doc EXCEPT !.kind = "report", !.last_update = st.last_update]

html_node_table(doc, st) ==
    [doc EXCEPT !.node_rows = [i \in 1..Len(st.node_info) |-> node_row(st.node_info[i])]]

html_job_table(doc, st) ==
    [doc EXCEPT !.job_rows = [i \in 1..Len(st.job_info) |-> job_row(st.job_info[i])]]

status_to_html(st) == html_job_table(html_node_table(html_header(EmptyDoc, st), st), st)

\* ------------------------------------------------------------------------
\* State
\* ------------------------------------------------------------------------
VARIABLES
    source,     \* the Configuration of main, which config.clone() is taken from
    config,     \* the Configuration moved into the poller thread
    status,     \* the SlurmStatus inside the Mutex
    mutex,      \* the Mutex: locked, poisoned, and the thread holding the guard
    ppc,        \* where the poller thread is in its loop
    rpc,        \* where each request handler is in handle_request
    rdoc,       \* the document each request handler has built so far
    clock,      \* seconds since the program started
    cycle,      \* number of the poller's current loop iteration
    tags,       \* for each field of status, the iteration that wrote it last
    rtags,      \* for each request handler, the tags of the fields it has read
    sent,       \* the last response handed to Iron: which document, its tags
    ext,        \* the external commands run so far in the current critical
                \* section, and what they gave in the iteration before
    invoked,    \* whether an external command has ever been run
    arg,        \* parser checks: the input
    src,        \* parser checks: the sample lines the input was put together from
    fn,         \* parser checks: the function applied to it
    ret         \* parser checks: its result

sysvars == << source, config, status, mutex, ppc, rpc, rdoc, clock, cycle, tags, rtags,
              sent, ext, invoked >>

parservars == << arg, src, fn, ret >>

vars == << source, config, status, mutex, ppc, rpc, rdoc, clock, cycle, tags, rtags,
           sent, ext, invoked, arg, src, fn, ret >>

Readers == 1..NumReaders

Poller == 0

\* --interval: the default of 60 seconds, and a shorter one
Intervals == {30, 60}

\* main.rs: SlurmStatus{ node_info: Vec::new(), job_info: Vec::new(), last_update: String::new() }
initial_slurm_status == [node_info |-> << >>, job_info |-> << >>, last_update |-> << >>]

NoTags == [node_info |-> 0, job_info |-> 0, last_update |-> 0]

Unread == [node_info |-> -1, job_info |-> -1, last_update |-> -1]

NoResponse == [kind |-> EmptyDoc.kind, tags |-> Unread]

NoLast == [sinfo_ret |-> None, node_info |-> << >>, squeue_ret |-> None, job_info |-> << >>]

NoExt == [sinfo |-> NoCall, sinfo_ret |-> << >>, squeue |-> NoCall, squeue_ret |-> << >>,
          last |-> NoLast]

\* The texts the commands returned in this iteration and the records
\* stored for them, to be compared with those of the next iteration.
LastOf(e, st) ==
    [sinfo_ret  |-> IF e.sinfo.result = "NoCall" THEN None ELSE Some(e.sinfo_ret),
     node_info  |-> IF e.sinfo.result = "NoCall" THEN << >> ELSE st.node_info,
     squeue_ret |-> IF e.squeue.result = "NoCall" THEN None ELSE Some(e.squeue_ret),
     job_info   |-> IF e.squeue.result = "NoCall" THEN << >> ELSE st.job_info]

\* The state in which check_slurm_status and handle_request start.  Both
\* are handed the Mutex by their caller; main hands them a fresh one, and
\* a Mutex poisoned by a panic of an earlier holder is the case their Err
\* arms are written for.
SysStart(cfg, poisoned) ==
    /\ source = cfg
    /\ config = cfg
    /\ status = initial_slurm_status
    /\ mutex = [locked |-> FALSE, poisoned |-> poisoned, owner |-> -1]
    /\ ppc = "lock"
    /\ rpc = [r \in Readers |-> "idle"]
    /\ rdoc = [r \in Readers |-> EmptyDoc]
    /\ clock = 0
    /\ cycle = 0
    /\ tags = NoTags
    /\ rtags = [r \in Readers |-> Unread]
    /\ sent = NoResponse
    /\ ext = NoExt
    /\ invoked = FALSE

SysInit ==
    \E cfg \in [interval : Intervals, test_mode : BOOLEAN], poisoned \in BOOLEAN :
        SysStart(cfg, poisoned)

ParserIdle == arg = << >> /\ src = << >> /\ fn = "none" /\ ret = << >>

Init == SysInit /\ ParserIdle

\* ------------------------------------------------------------------------
\* Mutex<SlurmStatus>
\* ------------------------------------------------------------------------
\* Variant: lock() that does not wait for the holder.
lock_available_always(m) == TRUE

\* lock() returns only when no other thread holds the guard
lock_available(m) == ~m.locked

\* Variant: the poison flag ignored (as with into_inner on the error).
lock_result_ignores_poison(m) == "Ok"

\* lock(): Ok(guard), or Err(PoisonError(guard)) when the mutex is poisoned
lock_result(m) == IF m.poisoned THEN "Err" ELSE "Ok"

Acquire(m, who) == [m EXCEPT !.locked = TRUE, !.owner = who]

\* the guard is dropped
Release(m) == [m EXCEPT !.locked = FALSE, !.owner = -1]

\* ------------------------------------------------------------------------
\* The poller thread (check_slurm_status)
\* ------------------------------------------------------------------------
NextCycle == IF cycle < MaxCycle THEN cycle + 1 ELSE cycle

\* Variant: test_mode read from the Configuration of main in each iteration.
use_fixture_of_source(cfg) == source.test_mode

\* Variant: the branches of `if config.test_mode` exchanged.
use_fixture_inverted(cfg) == ~cfg.test_mode

\* config.test_mode selects the fixtures
use_fixture(cfg) == cfg.test_mode

\* shared_slurm_status.lock()
\* Variant: the poller takes the guard without waiting for its holder.
P_Lock_nowait ==
    /\ ppc = "lock"
    /\ mutex' = Acquire(mutex, Poller)
    /\ ppc' = IF lock_result(mutex) = "Ok" THEN "node_info" ELSE "err"
    /\ cycle' = NextCycle
    /\ UNCHANGED << config, source, sent, status, rpc, rdoc, clock, tags, rtags, ext, invoked, parservars >>

P_Lock ==
    /\ ppc = "lock"
    /\ lock_available(mutex)
    /\ mutex' = Acquire(mutex, Poller)
    /\ ppc' = IF lock_result(mutex) = "Ok" THEN "node_info" ELSE "err"
    /\ cycle' = NextCycle
    /\ UNCHANGED << config, source, sent, status, rpc, rdoc, clock, tags, rtags, ext, invoked, parservars >>

\* status.node_info = get_partition_node_info_test()
P_NodeInfoTest ==
    /\ ppc = "node_info"
    /\ use_fixture(config)
    /\ status' = [status EXCEPT !.node_info = get_partition_node_info_test]
    /\ tags' = [tags EXCEPT !.node_info = cycle]
    /\ ppc' = "job_info"
    /\ UNCHANGED << config, source, sent, mutex, rpc, rdoc, clock, cycle, rtags, ext, invoked, parservars >>

\* Variant: the result of Command::output() unwrapped, so that a command
\* that cannot be executed panics the thread: the guard is dropped during
\* unwinding, which poisons the mutex, and the loop is over.
P_NodeInfo_unwrap ==
    /\ ppc = "node_info"
    /\ ~use_fixture(config)
    /\ \E output \in SinfoOutcomes :
          /\ ext' = [ext EXCEPT !.sinfo = output, !.sinfo_ret = call_sinfo(output)]
          /\ IF output.result = "Err"
             THEN /\ status' = status
                  /\ tags' = tags
                  /\ mutex' = [Release(mutex) EXCEPT !.poisoned = TRUE]
                  /\ ppc' = "panicked"
             ELSE /\ status' = [status EXCEPT !.node_info = get_partition_node_info(output)]
                  /\ tags' = [tags EXCEPT !.node_info = cycle]
                  /\ mutex' = mutex
                  /\ ppc' = "job_info"
    /\ invoked' = TRUE
    /\ UNCHANGED << config, source, sent, rpc, rdoc, clock, cycle, rtags, parservars >>

\* Variant: the records of the run pushed onto the vector the status holds.
P_NodeInfo_append ==
    /\ ppc = "node_info"
    /\ ~use_fixture(config)
    /\ \E output \in SinfoOutcomes :
          /\ status' = [status EXCEPT
                           !.node_info = status.node_info \o get_partition_node_info(output)]
          /\ ext' = [ext EXCEPT !.sinfo = output, !.sinfo_ret = call_sinfo(output)]
    /\ invoked' = TRUE
    /\ tags' = [tags EXCEPT !.node_info = cycle]
    /\ ppc' = "job_info"
    /\ UNCHANGED << config, source, sent, mutex, rpc, rdoc, clock, cycle, rtags, parservars >>

\* status.node_info = get_partition_node_info()
P_NodeInfo ==
    /\ ppc = "node_info"
    /\ ~use_fixture(config)
    /\ \E output \in SinfoOutcomes :
          /\ status' = [status EXCEPT !.node_info = get_partition_node_info(output)]
          /\ ext' = [ext EXCEPT !.sinfo = output, !.sinfo_ret = call_sinfo(output)]
    /\ invoked' = TRUE
    /\ tags' = [tags EXCEPT !.node_info = cycle]
    /\ ppc' = "job_info"
    /\ UNCHANGED << config, source, sent, mutex, rpc, rdoc, clock, cycle, rtags, parservars >>

\* status.job_info = get_job_info_test()
P_JobInfoTest ==
    /\ ppc = "job_info"
    /\ use_fixture(config)
    /\ status' = [status EXCEPT !.job_info = get_job_info_test]
    /\ tags' = [tags EXCEPT !.job_info = cycle]
    /\ ppc' = "stamp"
    /\ UNCHANGED << config, source, sent, mutex, rpc, rdoc, clock, cycle, rtags, ext, invoked, parservars >>

\* Variant: the records already stored are kept when no job was fetched.
P_JobInfo_keeps_stale ==
    /\ ppc = "job_info"
    /\ ~use_fixture(config)
    /\ \E output \in SqueueOutcomes :
          /\ status' = [status EXCEPT !.job_info =
                            IF get_job_info(output) = << >> THEN @ ELSE get_job_info(output)]
          /\ ext' = [ext EXCEPT !.squeue = output, !.squeue_ret = call_squeue(output)]
    /\ invoked' = TRUE
    /\ tags' = [tags EXCEPT !.job_info = cycle]
    /\ ppc' = "stamp"
    /\ UNCHANGED << config, source, sent, mutex, rpc, rdoc, clock, cycle, rtags, parservars >>

\* status.job_info = get_job_info()
P_JobInfo ==
    /\ ppc = "job_info"
    /\ ~use_fixture(config)
    /\ \E output \in SqueueOutcomes :
          /\ status' = [status EXCEPT !.job_info = get_job_info(output)]
          /\ ext' = [ext EXCEPT !.squeue = output, !.squeue_ret = call_squeue(output)]
    /\ invoked' = TRUE
    /\ tags' = [tags EXCEPT !.job_info = cycle]
    /\ ppc' = "stamp"
    /\ UNCHANGED << config, source, sent, mutex, rpc, rdoc, clock, cycle, rtags, parservars >>

\* status.last_update = strftime("%Y.%m.%d - %H:%M", &now()).unwrap()
P_Stamp ==
    /\ ppc = "stamp"
    /\ status' = [status EXCEPT !.last_update = strftime(now(clock))]
    /\ tags' = [tags EXCEPT !.last_update = cycle]
    /\ ppc' = "unlock"
    /\ UNCHANGED << config, source, sent, mutex, rpc, rdoc, clock, cycle, rtags, ext, invoked, parservars >>

\* Variant: the guard bound outside the match, still alive during the sleep.
P_Unlock_keeps_guard ==
    /\ ppc = "unlock"
    /\ ext' = [NoExt EXCEPT !.last = LastOf(ext, status)]
    /\ ppc' = "sleep"
    /\ UNCHANGED << config, source, sent, status, mutex, rpc, rdoc, clock, cycle, tags, rtags,
                    invoked, parservars >>

\* end of the Ok arm: the guard `status` is dropped
P_Unlock ==
    /\ ppc = "unlock"
    /\ mutex' = Release(mutex)
    /\ ext' = [NoExt EXCEPT !.last = LastOf(ext, status)]
    /\ ppc' = "sleep"
    /\ UNCHANGED << config, source, sent, status, rpc, rdoc, clock, cycle, tags, rtags, invoked, parservars >>

\* the Err arm: error!(...), then `err` and the guard inside it are dropped
P_LockErr ==
    /\ ppc = "err"
    /\ mutex' = Release(mutex)
    /\ ppc' = "sleep"
    /\ UNCHANGED << config, source, sent, status, rpc, rdoc, clock, cycle, tags, rtags, ext, invoked, parservars >>

\* sleep(Duration::new(config.interval, 0)), then the next iteration
P_Sleep ==
    /\ ppc = "sleep"
    /\ clock' = IF cycle < MaxCycle THEN clock + config.interval ELSE clock
    /\ ppc' = "lock"
    /\ UNCHANGED << config, source, sent, status, mutex, rpc, rdoc, cycle, tags, rtags, ext, invoked, parservars >>

\* ------------------------------------------------------------------------
\* The request handlers (handle_request)
\* ------------------------------------------------------------------------
\* Iron calls handle_request for a request
R_Request(r) ==
    /\ rpc[r] = "idle"
    /\ rpc' = [rpc EXCEPT ![r] = "lock"]
    /\ UNCHANGED << config, source, sent, status, mutex, ppc, rdoc, clock, cycle, tags, rtags, ext, invoked, parservars >>

\* Variant: a handler that takes the guard without waiting for its holder.
R_Lock_nowait(r) ==
    /\ rpc[r] = "lock"
    /\ mutex' = Acquire(mutex, r)
    /\ rpc' = [rpc EXCEPT ![r] = IF lock_result(mutex) = "Ok" THEN "header" ELSE "err"]
    /\ UNCHANGED << config, source, sent, status, ppc, rdoc, clock, cycle, tags, rtags, ext, invoked, parservars >>

\* shared_slurm_status.lock()
R_Lock(r) ==
    /\ rpc[r] = "lock"
    /\ lock_available(mutex)
    /\ mutex' = Acquire(mutex, r)
    /\ rpc' = [rpc EXCEPT ![r] = IF lock_result(mutex) = "Ok" THEN "header" ELSE "err"]
    /\ UNCHANGED << config, source, sent, status, ppc, rdoc, clock, cycle, tags, rtags, ext, invoked, parservars >>

\* Variant: the guard dropped once the header is written, the tables
\* rendered without it.
R_Header_release(r) ==
    /\ rpc[r] = "header"
    /\ rdoc' = [rdoc EXCEPT ![r] = html_header(@, status)]
    /\ rtags' = [rtags EXCEPT ![r].last_update = tags.last_update]
    /\ mutex' = Release(mutex)
    /\ rpc' = [rpc EXCEPT ![r] = "nodes"]
    /\ UNCHANGED << config, source, sent, status, ppc, clock, cycle, tags, ext, invoked, parservars >>

\* status_to_html(&status): the page header with status.last_update
R_Header(r) ==
    /\ rpc[r] = "header"
    /\ rdoc' = [rdoc EXCEPT ![r] = html_header(@, status)]
    /\ rtags' = [rtags EXCEPT ![r].last_update = tags.last_update]
    /\ rpc' = [rpc EXCEPT ![r] = "nodes"]
    /\ UNCHANGED << config, source, sent, status, mutex, ppc, clock, cycle, tags, ext, invoked, parservars >>

\* Variant: the rows are made from status.node_info.drain(..), which
\* leaves the list empty.
R_Nodes_drain(r) ==
    /\ rpc[r] = "nodes"
    /\ rdoc' = [rdoc EXCEPT ![r] = html_node_table(@, status)]
    /\ rtags' = [rtags EXCEPT ![r].node_info = tags.node_info]
    /\ status' = [status EXCEPT !.node_info = << >>]
    /\ rpc' = [rpc EXCEPT ![r] = "jobs"]
    /\ UNCHANGED << config, source, sent, mutex, ppc, clock, cycle, tags, ext, invoked, parservars >>

\* status_to_html(&status): for node in &status.node_info
R_Nodes(r) ==
    /\ rpc[r] = "nodes"
    /\ rdoc' = [rdoc EXCEPT ![r] = html_node_table(@, status)]
    /\ rtags' = [rtags EXCEPT ![r].node_info = tags.node_info]
    /\ rpc' = [rpc EXCEPT ![r] = "jobs"]
    /\ UNCHANGED << config, source, sent, status, mutex, ppc, clock, cycle, tags, ext, invoked, parservars >>

\* status_to_html(&status): for job in &status.job_info
R_Jobs(r) ==
    /\ rpc[r] = "jobs"
    /\ rdoc' = [rdoc EXCEPT ![r] = html_job_table(@, status)]
    /\ rtags' = [rtags EXCEPT ![r].job_info = tags.job_info]
    /\ rpc' = [rpc EXCEPT ![r] = "respond"]
    /\ UNCHANGED << config, source, sent, status, mutex, ppc, clock, cycle, tags, ext, invoked, parservars >>

\* string_to_response(&html); end of the Ok arm: the guard is dropped and
\* the response returned
R_Respond(r) ==
    /\ rpc[r] = "respond"
    /\ mutex' = Release(mutex)
    /\ sent' = [kind |-> rdoc[r].kind, tags |-> rtags[r]]
    /\ rdoc' = [rdoc EXCEPT ![r] = EmptyDoc]
    /\ rtags' = [rtags EXCEPT ![r] = Unread]
    /\ rpc' = [rpc EXCEPT ![r] = "idle"]
    /\ UNCHANGED << config, source, status, ppc, clock, cycle, tags, ext, invoked, parservars >>

\* the Err arm: string_to_response("<h1>Could not lock Mutex!</h1>")
R_LockErr(r) ==
    /\ rpc[r] = "err"
    /\ mutex' = Release(mutex)
    /\ sent' = [kind |-> ErrorDoc.kind, tags |-> rtags[r]]
    /\ rpc' = [rpc EXCEPT ![r] = "idle"]
    /\ UNCHANGED << config, source, status, ppc, rdoc, clock, cycle, tags, rtags, ext, invoked, parservars >>

PollerStep ==
    \/ P_Lock \/ P_NodeInfoTest \/ P_NodeInfo \/ P_JobInfoTest \/ P_JobInfo
    \/ P_Stamp \/ P_Unlock \/ P_LockErr \/ P_Sleep

ReaderStep(r) ==
    \/ R_Request(r) \/ R_Lock(r) \/ R_Header(r) \/ R_Nodes(r) \/ R_Jobs(r)
    \/ R_Respond(r) \/ R_LockErr(r)

Next == PollerStep \/ \E r \in Readers : ReaderStep(r)

Spec == Init /\ [][Next]_vars

\* A change of the Configuration of main while the poller sleeps.  The
\* program has no such step (the binding is immutable, main.rs:28); it is
\* the event a configuration "re-read live" would have to follow.
M_ConfigChanges ==
    /\ ppc = "sleep"
    /\ source = config
    /\ \E c \in [interval : Intervals, test_mode : BOOLEAN] :
          /\ c # source
          /\ source' = c
    /\ UNCHANGED << config, status, mutex, ppc, rpc, rdoc, clock, cycle, tags, rtags,
                    sent, ext, invoked, parservars >>

ConfigNext == Next \/ M_ConfigChanges

ConfigSpec == Init /\ [][ConfigNext]_vars

\* ------------------------------------------------------------------------
\* Scheduling
\* ------------------------------------------------------------------------
\* A thread that can run does run: every step of the poller other than
\* lock() is taken once it is possible, the external commands return, and a
\* request handler holding the guard goes on to drop it.  lock() is taken
\* if it is possible again and again (the lock does not starve the poller).
PollerRuns ==
    \/ P_NodeInfoTest \/ P_NodeInfo \/ P_JobInfoTest \/ P_JobInfo
    \/ P_Stamp \/ P_Unlock \/ P_LockErr \/ P_Sleep

ReaderRuns(r) ==
    \/ R_Header(r) \/ R_Nodes(r) \/ R_Jobs(r) \/ R_Respond(r) \/ R_LockErr(r)

Fairness ==
    /\ SF_vars(P_Lock)
    /\ WF_vars(PollerRuns)
    /\ \A r \in Readers : WF_vars(ReaderRuns(r))

LiveSpec == Init /\ [][Next]_vars /\ Fairness

\* The same threads when nothing is known of the external commands:
\* Command::output() waits for the process to exit, without a time limit, so
\* the two steps that run sinfo and squeue are taken only if the process
\* exits.  Every other step of a thread that can run is taken, and lock()
\* starves neither the poller nor a handler.
HangFairness ==
    /\ SF_vars(P_Lock)
    /\ WF_vars(P_NodeInfoTest \/ P_JobInfoTest \/ P_Stamp \/ P_Unlock \/ P_LockErr \/ P_Sleep)
    /\ \A r \in Readers : WF_vars(ReaderRuns(r)) /\ SF_vars(R_Lock(r))

HangSpec == Init /\ [][Next]_vars /\ HangFairness

\* ------------------------------------------------------------------------
\* The parsers on their own: an input is drawn, then one parser is applied
\* ------------------------------------------------------------------------
\* The tokens the field parsers match, and some they do not.
Words ==
    { Str_up, Str_down, Str_drained, Str_draining, Str_none, Str_alloc,
      Str_allocated, Str_completing, Str_fail, Str_failing, Str_idle, Str_maint,
      Str_dependency, Str_partitiondown, Str_partitionnodelimit,
      Str_partitiontimelimit, Str_priority, Str_resources, Str_nodedown,
      Str_badconstraints, Str_systemfailure, Str_joblaunchfailure,
      Str_nonzeroexitcode, Str_timelimit, Str_inactivelimit, Str_cancelled,
      Str_completed, Str_configuring, Str_failed, Str_node_fail, Str_pending,
      Str_preempted, Str_running, Str_suspended, Str_timeout,
      Str_unknown, Str_nodefail, Str_na, Str_upp, Str_allocate,
      << >>, <<"*">>, <<"-">>, <<"u">>, <<"u", " ", "p">> }

\* "Up", "Down", ...: the first letter in upper case
Capitalised(s) == [i \in 1..Len(s) |-> IF i = 1 THEN to_uppercase_char(s[i]) ELSE s[i]]

\* "uP", "dOwN", ...: every second letter in upper case
Alternating(s) == [i \in 1..Len(s) |-> IF i % 2 = 0 THEN to_uppercase_char(s[i]) ELSE s[i]]

Tokens ==
    Words \cup {to_uppercase(w) : w \in Words} \cup {Capitalised(w) : w \in Words}
          \cup {Alternating(w) : w \in Words}

SampleLines ==
    << << >>, Line_pn01, Line_pn02, Line_pn03, Line_pn_ws, Line_3, Line_4,
       Line_pn9, Line_pn11, Line_job01, Line_job20, Line_job02 >>

\* The items of each sample line, written out.
SampleItems ==
    << << >>, Items_pn01, Items_pn02, Items_pn03, Items_pn_ws, Items_3, Items_4,
       Items_pn9, Items_pn11, Items_job01, Items_job20, Items_job02 >>

\* The sample lines ids joined by "\n", with or without a final "\n".
RECURSIVE JoinLines(_, _)
JoinLines(ids, final) ==
    IF Len(ids) = 0 THEN << >>
    ELSE IF Len(ids) = 1 THEN SampleLines[ids[1]] \o (IF final THEN NL ELSE << >>)
    ELSE SampleLines[ids[1]] \o NL \o JoinLines(Tail(ids), final)

LineChoices == UNION {[1..n -> 1..Len(SampleLines)] : n \in 0..MaxLines}

\* A finite f64: sign, significant digits, decimal exponent.
Finite(neg, digits, exp) == [neg |-> neg, kind |-> "finite", digits |-> digits, exp |-> exp]

\* Numeric tokens (those of the sample lines among them), each with the
\* value Rust's parse::<u32>().ok() and parse::<f64>().ok() give for it.
NumCases ==
    {
      [tok |-> <<"2">>,
       u32 |-> Some(<<"2">>), f64 |-> Some(Finite(FALSE, <<"2">>, 1))],
      [tok |-> <<"1">>,
       u32 |-> Some(<<"1">>), f64 |-> Some(Finite(FALSE, <<"1">>, 1))],
      [tok |-> <<"4">>,
       u32 |-> Some(<<"4">>), f64 |-> Some(Finite(FALSE, <<"4">>, 1))],
      [tok |-> <<"8", "2">>,
       u32 |-> Some(<<"8", "2">>), f64 |-> Some(Finite(FALSE, <<"8", "2">>, 2))],
      [tok |-> <<"1", "0", "0", "0">>,
       u32 |-> Some(<<"1", "0", "0", "0">>), f64 |-> Some(Finite(FALSE, <<"1">>, 4))],
      [tok |-> <<"1", "0", "0", "1">>,
       u32 |-> Some(<<"1", "0", "0", "1">>), f64 |-> Some(Finite(FALSE, <<"1", "0", "0", "1">>, 4))],
      [tok |-> <<"0", "1">>,
       u32 |-> Some(<<"1">>), f64 |-> Some(Finite(FALSE, <<"1">>, 1))],
      [tok |-> <<"+", "7">>,
       u32 |-> Some(<<"7">>), f64 |-> Some(Finite(FALSE, <<"7">>, 1))],
      [tok |-> <<"0">>,
       u32 |-> Some(<<"0">>), f64 |-> Special(FALSE, "zero")],
      [tok |-> <<"4", "2", "9", "4", "9", "6", "7", "2", "9", "5">>,
       u32 |-> Some(<<"4", "2", "9", "4", "9", "6", "7", "2", "9", "5">>), f64 |-> Some(Finite(FALSE, <<"4", "2", "9", "4", "9", "6", "7", "2", "9", "5">>, 10))],
      [tok |-> <<"4", "2", "9", "4", "9", "6", "7", "2", "9", "6">>,
       u32 |-> None, f64 |-> Some(Finite(FALSE, <<"4", "2", "9", "4", "9", "6", "7", "2", "9", "6">>, 10))],
      [tok |-> <<"-", "1">>,
       u32 |-> None, f64 |-> Some(Finite(TRUE, <<"1">>, 1))],
      [tok |-> <<"0", ".", "2", "2">>,
       u32 |-> None, f64 |-> Some(Finite(FALSE, <<"2", "2">>, 0))],
      [tok |-> <<"0", ".", "1">>,
       u32 |-> None, f64 |-> Some(Finite(FALSE, <<"1">>, 0))],
      [tok |-> <<"0", ".", "9">>,
       u32 |-> None, f64 |-> Some(Finite(FALSE, <<"9">>, 0))],
      [tok |-> <<"0", ".", "0">>,
       u32 |-> None, f64 |-> Special(FALSE, "zero")],
      [tok |-> <<"0", ".", "9", "9", "9", "9", "8", "4", "7", "4", "0", "7", "4", "5", "2", "7">>,
       u32 |-> None, f64 |-> Some(Finite(FALSE, <<"9", "9", "9", "9", "8", "4", "7", "4", "0", "7", "4", "5", "2", "7">>, 0))],
      [tok |-> <<"1", ".", "5">>,
       u32 |-> None, f64 |-> Some(Finite(FALSE, <<"1", "5">>, 1))],
      [tok |-> <<"1", "e", "3">>,
       u32 |-> None, f64 |-> Some(Finite(FALSE, <<"1">>, 4))],
      [tok |-> <<"N", "/", "A">>,
       u32 |-> None, f64 |-> None],
      [tok |-> <<"*">>,
       u32 |-> None, f64 |-> None],
      [tok |-> <<"-">>,
       u32 |-> None, f64 |-> None],
      [tok |-> << >>,
       u32 |-> None, f64 |-> None],
      [tok |-> <<"+">>,
       u32 |-> None, f64 |-> None],
      [tok |-> <<".">>,
       u32 |-> None, f64 |-> None],
      [tok |-> <<"2", "a">>,
       u32 |-> None, f64 |-> None],
      [tok |-> <<"1", "e">>,
       u32 |-> None, f64 |-> None],
      [tok |-> <<"0", "x", "1", "0">>,
       u32 |-> None, f64 |-> None] }

NumTokens == {c.tok : c \in NumCases}

\* Node lists with the vectors of the tests of str_to_list_of_nodes
\* (squeue_util.rs:203-221) and of the fixture.
ListCases ==
    {
      [tok |-> << >>,
       val |-> << >>],
      [tok |-> <<"n", "o", "d", "e", "1">>,
       val |-> << <<"n", "o", "d", "e", "1">> >>],
      [tok |-> <<"n", "o", "d", "e", "1", ",", "n", "o", "d", "e", "2">>,
       val |-> << <<"n", "o", "d", "e", "1">>, <<"n", "o", "d", "e", "2">> >>],
      [tok |-> <<"n", "o", "d", "e", "1", ",", "n", "o", "d", "e", "2", ",", "n", "o", "d", "e", "3">>,
       val |-> << <<"n", "o", "d", "e", "1">>, <<"n", "o", "d", "e", "2">>, <<"n", "o", "d", "e", "3">> >>],
      [tok |-> <<"n", "o", "d", "e", "0", "1", ",", "n", "o", "d", "e", "0", "2">>,
       val |-> << <<"n", "o", "d", "e", "0", "1">>, <<"n", "o", "d", "e", "0", "2">> >>],
      [tok |-> <<"a", "g", "a", "s", "s", "i", "z">>,
       val |-> << <<"a", "g", "a", "s", "s", "i", "z">> >>] }

ListTokens ==
    {c.tok : c \in ListCases} \cup
    { <<",">>,
      <<"a", ",", ",", "b">>,
      <<"n", "o", "d", "e", "1", ",">>,
      <<",", "n", "o", "d", "e", "1">> }

\* arg is a text put together from the sample lines src
IsText == arg = JoinLines(src, TRUE) \/ arg = JoinLines(src, FALSE)

ParserInit ==
    /\ SysStart([interval |-> 60, test_mode |-> FALSE], FALSE)
    /\ fn = "none"
    /\ ret = << >>
    /\ \/ arg \in Tokens \cup NumTokens \cup ListTokens /\ src = << >>
       \/ \E ids \in LineChoices, final \in BOOLEAN :
             arg = JoinLines(ids, final) /\ src = ids

Apply_str_to_availability ==
    /\ fn = "none" /\ arg \in Tokens
    /\ fn' = "str_to_availability"
    /\ ret' = str_to_availability(arg)
    /\ UNCHANGED << arg, src, sysvars >>

Apply_str_to_error ==
    /\ fn = "none" /\ arg \in Tokens
    /\ fn' = "str_to_error"
    /\ ret' = str_to_error(arg)
    /\ UNCHANGED << arg, src, sysvars >>

Apply_str_to_node_state ==
    /\ fn = "none" /\ arg \in Tokens
    /\ fn' = "str_to_node_state"
    /\ ret' = str_to_node_state(arg)
    /\ UNCHANGED << arg, src, sysvars >>

Apply_str_to_state_reason ==
    /\ fn = "none" /\ arg \in Tokens
    /\ fn' = "str_to_state_reason"
    /\ ret' = str_to_state_reason(arg)
    /\ UNCHANGED << arg, src, sysvars >>

Apply_str_to_job_state ==
    /\ fn = "none" /\ arg \in Tokens
    /\ fn' = "str_to_job_state"
    /\ ret' = str_to_job_state(arg)
    /\ UNCHANGED << arg, src, sysvars >>

Apply_get_pn_info_util ==
    /\ fn = "none" /\ IsText
    /\ fn' = "get_pn_info_util"
    /\ ret' = get_pn_info_util(arg)
    /\ UNCHANGED << arg, src, sysvars >>

Apply_get_job_info_util ==
    /\ fn = "none" /\ IsText
    /\ fn' = "get_job_info_util"
    /\ ret' = get_job_info_util(arg)
    /\ UNCHANGED << arg, src, sysvars >>

Apply_parse_u32 ==
    /\ fn = "none" /\ arg \in NumTokens
    /\ fn' = "parse_u32"
    /\ ret' = parse_u32(arg)
    /\ UNCHANGED << arg, src, sysvars >>

Apply_parse_f64 ==
    /\ fn = "none" /\ arg \in NumTokens
    /\ fn' = "parse_f64"
    /\ ret' = parse_f64(arg)
    /\ UNCHANGED << arg, src, sysvars >>

Apply_str_to_list_of_nodes ==
    /\ fn = "none" /\ arg \in ListTokens
    /\ fn' = "str_to_list_of_nodes"
    /\ ret' = str_to_list_of_nodes(arg)
    /\ UNCHANGED << arg, src, sysvars >>

ParserNext ==
    \/ Apply_str_to_availability \/ Apply_str_to_error \/ Apply_str_to_node_state
    \/ Apply_str_to_state_reason \/ Apply_str_to_job_state
    \/ Apply_get_pn_info_util \/ Apply_get_job_info_util
    \/ Apply_parse_u32 \/ Apply_parse_f64 \/ Apply_str_to_list_of_nodes

ParserSpec == ParserInit /\ [][ParserNext]_vars

\* ------------------------------------------------------------------------
\* Properties
\* ------------------------------------------------------------------------
InReport(r) == rpc[r] \in {"header", "nodes", "jobs", "respond"}

\* The thread is between lock() and the drop of its guard.
ReaderInCS(r) == InReport(r) \/ rpc[r] = "err"

PollerInCS == ppc \in {"node_info", "job_info", "stamp", "unlock", "err"}

OneCycle(t) == t.node_info = t.last_update /\ t.job_info = t.last_update

\* C1: a request handler that has read the three fields of the status has
\* read values written by one and the same iteration of the poller (or the
\* three initial values), so has every report handed back; and whenever the
\* mutex is not locked the three fields of the status were written by one
\* iteration.
C1_SnapshotOfOneCycle ==
    /\ \A r \in Readers : rpc[r] = "respond" => OneCycle(rtags[r])
    /\ (sent.kind = "report" => OneCycle(sent.tags))
    /\ (~mutex.locked => OneCycle(tags))

\* A handler has read the whole status of the second iteration while the
\* poller waits for the lock to begin its next one.
C1_Witness ==
    \E r \in Readers :
        /\ rpc[r] = "respond"
        /\ rtags[r] = [node_info |-> 2, job_info |-> 2, last_update |-> 2]
        /\ ppc = "lock"
        /\ Len(rdoc[r].node_rows) > 0

\* C2: at most one thread is between lock() and the drop of its guard, and
\* while one is, lock() of every other thread cannot return.
C2_MutualExclusion ==
    /\ Cardinality({r \in Readers : ReaderInCS(r)}) + (IF PollerInCS THEN 1 ELSE 0) <= 1
    /\ \A r \in Readers :
          (rpc[r] = "lock" /\ (PollerInCS \/ \E q \in Readers : ReaderInCS(q)))
              => ~ENABLED R_Lock(r)
    /\ (ppc = "lock" /\ \E q \in Readers : ReaderInCS(q)) => ~ENABLED P_Lock

\* One handler holds the guard; the other handler and the poller are both
\* at lock().
C2_Witness ==
    /\ ReaderInCS(1)
    /\ rpc[2] = "lock"
    /\ ppc = "lock"
    /\ cycle >= 1

\* C3 as stated: no request handler executes status_to_html while it holds
\* the lock.
C3_NoRenderUnderLock ==
    \A r \in Readers : ~(mutex.locked /\ mutex.owner = r /\ InReport(r))

\* C3 as amended: a request handler holds the lock exactly from the return
\* of lock() to the end of the match arm, that is throughout status_to_html
\* and string_to_response (or the Err arm), and while it does the poller's
\* lock() cannot return.
C3_RenderUnderLock ==
    /\ \A r \in Readers : (mutex.locked /\ mutex.owner = r) <=> ReaderInCS(r)
    /\ (ppc = "lock" /\ \E r \in Readers : InReport(r)) => ~ENABLED P_Lock

\* A handler is rendering the node table, holding the lock the poller
\* waits for.
C3_Witness ==
    /\ rpc[1] = "nodes"
    /\ mutex.locked /\ mutex.owner = 1
    /\ ppc = "lock"
    /\ cycle >= 1

\* The command could not be executed, or none of the lines it wrote has
\* n items.
NoValidLine(output, n) ==
    \/ output.result = "Err"
    \/ /\ output.result = "Ok"
       /\ \A k \in 1..Len(lines(output.stdout)) :
             Len(split_whitespace(lines(output.stdout)[k])) # n

C4_EmptyOnFailure ==
    (ppc = "unlock" /\ ~config.test_mode) =>
        /\ (NoValidLine(ext.sinfo, 10) => status.node_info = << >>)
        /\ (NoValidLine(ext.squeue, 19) => status.job_info = << >>)

\* C4: at the end of an iteration in which sinfo (squeue) could not be
\* executed or wrote no well-formed line, node_info (job_info) is empty;
\* and the poller begins a new iteration again and again.
C4_PollerNeverStops ==
    /\ []C4_EmptyOnFailure
    /\ []<><<P_Lock>>_vars

\* The third iteration ends after neither command could be executed.
C4_Witness ==
    /\ ppc = "unlock"
    /\ cycle = 3
    /\ ext.sinfo = CmdErr
    /\ ext.squeue = CmdErr
    /\ status.node_info = << >>
    /\ tags.last_update = 3

C5_Degraded ==
    mutex.poisoned =>
        /\ ppc \in {"lock", "err", "sleep"}
        /\ \A r \in Readers : ~InReport(r) /\ rdoc[r] = EmptyDoc
        /\ (sent # NoResponse => sent.kind = ErrorDoc.kind)

C5_Skips ==
    mutex.poisoned =>
        /\ status' = status
        /\ tags' = tags
        /\ (ppc = "err" => ppc' \in {"err", "sleep"})
        /\ (ppc = "sleep" => ppc' \in {"sleep", "lock"})

\* C5: with the mutex poisoned, a request handler hands back the error
\* document and renders nothing, the poller leaves the status as it is,
\* goes from the Err arm to its sleep and from there to lock() again, and
\* does so again and again.
C5_PoisonedLockDegrades ==
    /\ []C5_Degraded
    /\ [][C5_Skips]_vars
    /\ (mutex.poisoned => []<><<P_LockErr>>_vars)

\* The mutex is poisoned, the poller sleeps after its second skipped
\* iteration, and a handler has handed back the error document.
C5_Witness ==
    /\ mutex.poisoned
    /\ ppc = "sleep"
    /\ cycle = 2
    /\ sent.kind = ErrorDoc.kind
    /\ status = initial_slurm_status

\* C6 as stated: call_sinfo and call_squeue give the empty string when the
\* command could not be executed and when it exited with a status other
\* than zero.
C6_EmptyOnAnyFailure ==
    /\ (ext.sinfo.result = "Err" \/ (ext.sinfo.result = "Ok" /\ ext.sinfo.status # 0))
          => ext.sinfo_ret = << >>
    /\ (ext.squeue.result = "Err" \/ (ext.squeue.result = "Ok" /\ ext.squeue.status # 0))
          => ext.squeue_ret = << >>

\* The records of the two fixtures.
FixtureNodes == get_pn_info_util(SinfoTestData)

FixtureJobs == get_job_info_util(SqueueTestData)

\* C7: in test mode no external command is ever run, and once an iteration
\* has completed node_info and job_info are the twelve records of each
\* fixture.
C7_TestModeUsesFixtures ==
    config.test_mode =>
        /\ ~invoked
        /\ ext = NoExt
        /\ (tags.last_update >= 1 =>
               /\ status.node_info = FixtureNodes
               /\ status.job_info = FixtureJobs
               /\ Len(status.node_info) = 12
               /\ Len(status.job_info) = 12)

\* Test mode, the poller sleeps after its second iteration.
C7_Witness ==
    /\ config.test_mode
    /\ ppc = "sleep"
    /\ tags = [node_info |-> 2, job_info |-> 2, last_update |-> 2]
    /\ Len(status.node_info) = 12

\* The items of the sample lines of src that have n items, in order.
RECURSIVE ItemsOfArity(_, _)
ItemsOfArity(ids, n) ==
    IF Len(ids) = 0 THEN << >>
    ELSE (IF Len(SampleItems[ids[1]]) = n THEN << SampleItems[ids[1]] >> ELSE << >>)
             \o ItemsOfArity(Tail(ids), n)

PnFieldsFrom(rec, t) ==
    /\ rec.partition = t[1]
    /\ rec.availability = str_to_availability(t[2])
    /\ rec.hostname = t[3]
    /\ rec.node = t[4]
    /\ rec.error = str_to_error(t[5])
    /\ rec.cpu_load = parse_f64(t[6])
    /\ rec.node_state = str_to_node_state(t[7])
    /\ rec.node_sockets = parse_u32(t[8])
    /\ rec.node_cores = parse_u32(t[9])
    /\ rec.node_threads = parse_u32(t[10])

JobFieldsFrom(rec, t) ==
    /\ rec.executing_host = t[1]
    /\ rec.minimum_cpu = parse_u32(t[2])
    /\ rec.num_cpu = parse_u32(t[3])
    /\ rec.num_nodes = parse_u32(t[4])
    /\ rec.job_array_id = parse_u32(t[5])
    /\ rec.num_sockets = parse_u32(t[6])
    /\ rec.job_id = parse_u32(t[7])
    /\ rec.num_cores = parse_u32(t[8])
    /\ rec.job_name = t[9]
    /\ rec.num_threads = parse_u32(t[10])
    /\ rec.job_array_index = parse_u32(t[11])
    /\ rec.run_time = t[12]
    /\ rec.list_of_nodes = str_to_list_of_nodes(t[13])
    /\ rec.priority = parse_f64(t[14])
    /\ rec.state_reason = str_to_state_reason(t[15])
    /\ rec.start_time = t[16]
    /\ rec.job_state = str_to_job_state(t[17])
    /\ rec.user_name = t[18]
    /\ rec.user_id = parse_u32(t[19])

\* C8: get_pn_info_util gives one record for each line of ten items and
\* get_job_info_util one for each line of nineteen, in the order of the
\* lines, each field from the item at its position; every other line gives
\* none, so a text without such a line gives the empty sequence.
C8_OneRecordPerValidLine ==
    /\ fn = "get_pn_info_util" =>
          LET want == ItemsOfArity(src, 10)
          IN  /\ Len(ret) = Len(want)
              /\ \A k \in 1..Len(want) : PnFieldsFrom(ret[k], want[k])
    /\ fn = "get_job_info_util" =>
          LET want == ItemsOfArity(src, 19)
          IN  /\ Len(ret) = Len(want)
              /\ \A k \in 1..Len(want) : JobFieldsFrom(ret[k], want[k])

\* A line of eleven items followed by the line of sinfo_util.rs:125 has
\* given the one record of the second line.
C8_Witness ==
    /\ fn = "get_pn_info_util"
    /\ src = << 9, 2 >>
    /\ Len(ret) = 1
    /\ ret[1].hostname = Items_pn01[3]
    /\ ret[1].node_state = "Idle"

\* The tokens each field parser matches.
Recognised(f) ==
    CASE f = "str_to_availability" -> { Str_up }
      [] f = "str_to_error" -> { Str_down, Str_drained, Str_draining, Str_none }
      [] f = "str_to_node_state" ->
            { Str_alloc, Str_allocated, Str_completing, Str_down, Str_drained,
              Str_draining, Str_fail, Str_failing, Str_idle, Str_maint }
      [] f = "str_to_state_reason" ->
            { Str_dependency, Str_none, Str_partitiondown, Str_partitionnodelimit,
              Str_partitiontimelimit, Str_priority, Str_resources, Str_nodedown,
              Str_badconstraints, Str_systemfailure, Str_joblaunchfailure,
              Str_nonzeroexitcode, Str_timelimit, Str_inactivelimit }
      [] f = "str_to_job_state" ->
            { Str_cancelled, Str_completed, Str_configuring, Str_completing,
              Str_failed, Str_node_fail, Str_pending, Str_preempted, Str_running,
              Str_suspended, Str_timeout }
      [] OTHER -> { }

FieldParsers ==
    { "str_to_availability", "str_to_error", "str_to_node_state",
      "str_to_state_reason", "str_to_job_state" }

ApplyField(f, s) ==
    CASE f = "str_to_availability" -> str_to_availability(s)
      [] f = "str_to_error" -> str_to_error(s)
      [] f = "str_to_node_state" -> str_to_node_state(s)
      [] f = "str_to_state_reason" -> str_to_state_reason(s)
      [] f = "str_to_job_state" -> str_to_job_state(s)

\* s is w up to the case of its letters
IsCaseVariant(s, w) ==
    /\ Len(s) = Len(w)
    /\ \A i \in 1..Len(w) : s[i] = w[i] \/ s[i] = to_uppercase_char(w[i])

\* C9: for a token that is a case variant of a recognised token, the field
\* parser gives the same value for the token as given, in upper case, in
\* lower case and in mixed case.
C9_CaseInsensitive ==
    (fn \in FieldParsers /\ \E w \in Recognised(fn) : IsCaseVariant(arg, w)) =>
        /\ ret = ApplyField(fn, to_uppercase(arg))
        /\ ret = ApplyField(fn, to_lowercase(arg))
        /\ ret = ApplyField(fn, Capitalised(to_lowercase(arg)))
        /\ ret = ApplyField(fn, Alternating(to_lowercase(arg)))
        /\ ret # "Unknown"

\* squeue_util.rs:408: str_to_job_state("NODE_FAIL") is NodeFail.
C9_Witness ==
    /\ fn = "str_to_job_state"
    /\ arg = to_uppercase(Str_node_fail)
    /\ ret = "NodeFail"

\* C10: str_to_availability gives Up for the case variants of "up" and Down
\* for every other token; the other field parsers give Unknown for every
\* token that is no case variant of a token they match; every field parser
\* gives a variant of its enum for every token.
C10_FallbackVariant ==
    /\ fn = "str_to_availability" =>
          /\ ret \in {"Up", "Down"}
          /\ (ret = "Up" <=> IsCaseVariant(arg, Str_up))
    /\ (fn \in FieldParsers \ {"str_to_availability"}) =>
          /\ ret \in STRING
          /\ ((\A w \in Recognised(fn) : ~IsCaseVariant(arg, w)) => ret = "Unknown")

\* str_to_availability("N/A") is Down.
C10_Witness ==
    /\ fn = "str_to_availability"
    /\ arg = Str_na
    /\ ret = "Down"

\* The value the table gives for a numeric token.
ExpectedU32(tok) == (CHOOSE c \in NumCases : c.tok = tok).u32

ExpectedF64(tok) == (CHOOSE c \in NumCases : c.tok = tok).f64

PnNumbersFrom(rec, t) ==
    /\ rec.cpu_load = ExpectedF64(t[6])
    /\ rec.node_sockets = ExpectedU32(t[8])
    /\ rec.node_cores = ExpectedU32(t[9])
    /\ rec.node_threads = ExpectedU32(t[10])

JobNumbersFrom(rec, t) ==
    /\ \A k \in {2, 3, 4, 5, 6, 7, 8, 10, 11, 19} : t[k] \in NumTokens
    /\ rec.minimum_cpu = ExpectedU32(t[2])
    /\ rec.num_cpu = ExpectedU32(t[3])
    /\ rec.num_nodes = ExpectedU32(t[4])
    /\ rec.job_array_id = ExpectedU32(t[5])
    /\ rec.num_sockets = ExpectedU32(t[6])
    /\ rec.job_id = ExpectedU32(t[7])
    /\ rec.num_cores = ExpectedU32(t[8])
    /\ rec.num_threads = ExpectedU32(t[10])
    /\ rec.job_array_index = ExpectedU32(t[11])
    /\ rec.priority = ExpectedF64(t[14])
    /\ rec.user_id = ExpectedU32(t[19])

\* C11: parse::<u32>().ok() and parse::<f64>().ok() give the present value
\* of a token that is a number of the type and the absent value for every
\* other token; and a line of ten (nineteen) items gives its record
\* whatever its numeric items are, each numeric field of the record being
\* the present or absent value of its item.
C11_NumberOrAbsent ==
    /\ fn = "parse_u32" => ret = ExpectedU32(arg)
    /\ fn = "parse_f64" => ret = ExpectedF64(arg)
    /\ fn = "get_pn_info_util" =>
          LET want == ItemsOfArity(src, 10)
          IN  /\ Len(ret) = Len(want)
              /\ \A k \in 1..Len(want) : PnNumbersFrom(ret[k], want[k])
    /\ fn = "get_job_info_util" =>
          LET want == ItemsOfArity(src, 19)
          IN  /\ Len(ret) = Len(want)
              /\ \A k \in 1..Len(want) : JobNumbersFrom(ret[k], want[k])

\* The line "esd down node03 node03 down - - - - -" of the fixture followed
\* by a line of three items: one record, its four numeric fields absent.
C11_Witness ==
    /\ fn = "get_pn_info_util"
    /\ src = << 4, 6 >>
    /\ Len(ret) = 1
    /\ ret[1].cpu_load = None
    /\ ret[1].node_sockets = None
    /\ ret[1].node_cores = None
    /\ ret[1].node_threads = None

\* The pieces joined again with a comma between each two.
RECURSIVE JoinComma(_)
JoinComma(v) ==
    IF Len(v) = 0 THEN << >>
    ELSE IF Len(v) = 1 THEN v[1]
    ELSE v[1] \o <<",">> \o JoinComma(Tail(v))

\* C12: str_to_list_of_nodes gives the empty sequence for the empty string
\* and otherwise the pieces between the commas in their order: no piece
\* holds a comma, there is one piece more than there are commas, and the
\* pieces joined with commas are the argument; so a string without a comma
\* gives the one-element sequence holding it, and the strings of the tests
\* give the vectors of the tests.
C12_ListOfNodes ==
    fn = "str_to_list_of_nodes" =>
        /\ (arg = << >> => ret = << >>)
        /\ (arg # << >> =>
               /\ Len(ret) = Cardinality({i \in 1..Len(arg) : arg[i] = ","}) + 1
               /\ \A k \in 1..Len(ret) : \A i \in 1..Len(ret[k]) : ret[k][i] # ","
               /\ JoinComma(ret) = arg)
        /\ ((arg # << >> /\ \A i \in 1..Len(arg) : arg[i] # ",") => ret = << arg >>)
        /\ \A c \in ListCases : c.tok = arg => ret = c.val

\* squeue_util.rs:219: "node1,node2,node3" gives the three names in order.
C12_Witness ==
    /\ fn = "str_to_list_of_nodes"
    /\ Len(ret) = 3
    /\ ret[1] = <<"n", "o", "d", "e", "1">>
    /\ ret[2] = <<"n", "o", "d", "e", "2">>
    /\ ret[3] = <<"n", "o", "d", "e", "3">>

\* C13: at the end of an iteration in which sinfo returned the text it
\* returned in the iteration before, node_info is what that iteration
\* stored; the same for squeue and job_info.
C13_SameTextSameRecords ==
    (ppc = "unlock" /\ ~config.test_mode) =>
        /\ (ext.last.sinfo_ret = Some(ext.sinfo_ret) => status.node_info = ext.last.node_info)
        /\ (ext.last.squeue_ret = Some(ext.squeue_ret) => status.job_info = ext.last.job_info)

\* The second iteration ends; both commands returned the text of the first
\* iteration, two node records and one job record.
C13_Witness ==
    /\ ppc = "unlock"
    /\ cycle = 2
    /\ ext.last.sinfo_ret = Some(ext.sinfo_ret)
    /\ ext.last.squeue_ret = Some(ext.squeue_ret)
    /\ Len(status.node_info) = 2
    /\ Len(status.job_info) = 1
    /\ tags = [node_info |-> 2, job_info |-> 2, last_update |-> 2]

AllTagged(t, c) == t = [node_info |-> c, job_info |-> c, last_update |-> c]

C14_ReadsLatest ==
    \A r \in Readers : InReport(r) =>
        /\ ppc \in {"lock", "sleep"}
        /\ AllTagged(tags, cycle)
        /\ \A f \in {"node_info", "job_info", "last_update"} : rtags[r][f] \in {-1, cycle}
        /\ (rpc[r] = "respond" => AllTagged(rtags[r], cycle))

C14_Ordered ==
    /\ cycle' >= cycle
    /\ tags'.node_info >= tags.node_info
    /\ tags'.job_info >= tags.job_info
    /\ tags'.last_update >= tags.last_update
    /\ \A r \in Readers :
          (rpc[r] = "respond" /\ rpc'[r] = "idle") => AllTagged(sent'.tags, cycle)

\* C14: the iterations of the poller are numbered in the order in which
\* they lock, and no field of the status ever goes back to an earlier
\* iteration; a handler that holds the lock reads the fields written by
\* the last iteration that has locked, which has completed (the initial
\* ones if none has), and the report it hands back is of that iteration.
C14_ReadsSeeLatestUpdate == []C14_ReadsLatest /\ [][C14_Ordered]_vars

\* A handler has read the status of the third iteration, after a report of
\* the second one was handed back.
C14_Witness ==
    /\ rpc[1] = "respond"
    /\ AllTagged(rtags[1], 3)
    /\ cycle = 3
    /\ ppc = "sleep"
    /\ sent.kind = "report"
    /\ AllTagged(sent.tags, 2)

\* The record of test_get_pn_info_util_01 (sinfo_util.rs:126-137).
Record_pn01 ==
    [ partition    |-> <<"l", "o", "n", "g", "r", "u", "n">>,
      availability |-> "Up",
      hostname     |-> <<"n", "o", "d", "e", "0", "1", ".", "f", "o", "o", ".", "b", "a", "r">>,
      node         |-> <<"n", "o", "d", "e", "0", "1">>,
      error        |-> "None",
      cpu_load     |-> Some(Finite(FALSE, <<"2", "2">>, 0)),
      node_state   |-> "Idle",
      node_sockets |-> Some(<<"2">>),
      node_cores   |-> Some(<<"2">>),
      node_threads |-> Some(<<"2">>) ]

\* C15: get_pn_info_util of the line
\* "longrun up node01.foo.bar node01 none 0.22 idle 2 2 2", with or
\* without a newline after it, is the one record of the test.
C15_ExampleLine ==
    (fn = "get_pn_info_util" /\ arg \in {Line_pn01, Line_pn01 \o NL}) =>
        ret = << Record_pn01 >>

\* The line as the test gives it, without a newline, has been parsed.
C15_Witness ==
    /\ fn = "get_pn_info_util"
    /\ arg = Line_pn01
    /\ Len(arg) = 53
    /\ Len(ret) = 1
    /\ ret[1].cpu_load = Some(Finite(FALSE, <<"2", "2">>, 0))

NodeOptionals == {"cpu_load", "node_sockets", "node_cores", "node_threads"}

JobOptionals ==
    { "minimum_cpu", "num_cpu", "num_nodes", "job_array_id", "num_sockets", "job_id",
      "num_cores", "num_threads", "job_array_index", "priority", "user_id" }

\* doc shows st: its header, a row for each record, the marker on the rows
\* of the partitions that are not up, "-" for what is absent and for
\* nothing else.
Shows(doc, st) ==
    /\ doc.kind = "report"
    /\ doc.last_update = st.last_update
    /\ Len(doc.node_rows) = Len(st.node_info)
    /\ Len(doc.job_rows) = Len(st.job_info)
    /\ \A i \in 1..Len(st.node_info) :
          /\ doc.node_rows[i].partition = st.node_info[i].partition
          /\ doc.node_rows[i].hostname = st.node_info[i].hostname
          /\ (doc.node_rows[i].availability_id = "partition_down"
                 <=> st.node_info[i].availability # "Up")
          /\ \A f \in NodeOptionals :
                doc.node_rows[i][f] = <<"-">> <=> st.node_info[i][f] = None
    /\ \A i \in 1..Len(st.job_info) :
          /\ doc.job_rows[i].job_name = st.job_info[i].job_name
          /\ doc.job_rows[i].user_name = st.job_info[i].user_name
          /\ \A f \in JobOptionals :
                doc.job_rows[i][f] = <<"-">> <=> st.job_info[i][f] = None

\* C16: the document a handler has rendered is status_to_html of the
\* status, whatever the status is, the initial one included; it shows
\* last_update, one row for each PartitionNodeInfo, with the partition_down
\* marker exactly on those whose availability is not Up, one row for each
\* JobInfo, and "-" exactly for the optional fields that are absent.
C16_ReportShowsStatus ==
    \A r \in Readers : rpc[r] = "respond" =>
        /\ rdoc[r] = status_to_html(status)
        /\ Shows(rdoc[r], status)
        /\ (status = initial_slurm_status =>
               rdoc[r] = [kind |-> "report", last_update |-> << >>,
                          node_rows |-> << >>, job_rows |-> << >>])

\* A handler has rendered a status with a partition that is down and whose
\* numbers are absent, and a job with absent numbers.
C16_Witness ==
    /\ rpc[1] = "respond"
    /\ Len(status.last_update) = 18
    /\ \E i \in 1..Len(status.node_info) :
          /\ status.node_info[i].availability = "Down"
          /\ status.node_info[i].node_sockets = None
          /\ rdoc[1].node_rows[i].availability_id = "partition_down"
          /\ rdoc[1].node_rows[i].node_sockets = <<"-">>
    /\ \E i \in 1..Len(status.node_info) :
          /\ status.node_info[i].availability = "Up"
          /\ rdoc[1].node_rows[i].availability_id = ""
          /\ rdoc[1].node_rows[i].node_sockets = <<"2">>
    /\ \E i \in 1..Len(status.job_info) :
          /\ status.job_info[i].job_array_id = None
          /\ rdoc[1].job_rows[i].job_array_id = <<"-">>

\* The initial status rendered: no row, no time.
C16_WitnessInitial ==
    /\ rpc[1] = "respond"
    /\ status = initial_slurm_status
    /\ rdoc[1].node_rows = << >>

PollerFetched == ppc \in {"job_info", "stamp", "unlock"}

C17_UsesOwnCopy ==
    /\ PollerFetched => (ext.sinfo.result = "NoCall" <=> config.test_mode)
    /\ (ppc = "sleep" /\ tags.last_update >= 1) =>
          (invoked <=> ~config.test_mode)

C17_CopyNeverChanges ==
    /\ config' = config
    /\ (ppc = "sleep" /\ ppc' = "lock" /\ cycle < MaxCycle) =>
          clock' = clock + config.interval

PollerHoldsLock == mutex.locked /\ mutex.owner = Poller

\* The steps of an iteration, each with the one that follows it.
PollerOrder ==
    { <<"lock", "node_info">>, <<"node_info", "job_info">>, <<"job_info", "stamp">>,
      <<"stamp", "unlock">>, <<"unlock", "sleep">>, <<"sleep", "lock">>,
      <<"lock", "err">>, <<"err", "sleep">> }

C18_SleepsUnlocked ==
    /\ PollerHoldsLock <=> PollerInCS
    /\ ppc \in {"sleep", "lock"} => ~PollerHoldsLock
    /\ \A r \in Readers :
          (ppc = "sleep" /\ rpc[r] = "lock" /\ \A q \in Readers : ~ReaderInCS(q))
              => ENABLED R_Lock(r)

C18_StepsInOrder ==
    /\ (ppc' # ppc => << ppc, ppc' >> \in PollerOrder)
    /\ (status' # status \/ tags' # tags) => (PollerHoldsLock /\ mutex' = mutex)
    /\ status'.node_info # status.node_info => (ppc = "node_info" /\ ppc' = "job_info")
    /\ status'.job_info # status.job_info => (ppc = "job_info" /\ ppc' = "stamp")
    /\ (ppc = "node_info" /\ ppc' = "job_info") => tags'.node_info = cycle
    /\ (ppc = "job_info" /\ ppc' = "stamp") => tags'.job_info = cycle
    /\ (ppc = "stamp" /\ ppc' = "unlock") =>
          /\ tags'.last_update = cycle
          /\ status'.last_update = strftime(now(clock))
    /\ (ppc = "unlock" /\ ppc' = "sleep") => (PollerHoldsLock /\ ~mutex'.locked)
    /\ (ppc = "sleep" /\ ppc' = "lock") =>
          /\ ~mutex.locked \/ mutex.owner # Poller
          /\ cycle < MaxCycle => clock' = clock + config.interval

\* C18: an iteration of the poller locks, stores node_info, stores
\* job_info, stamps last_update, drops the guard and sleeps for interval
\* seconds, in this order; the poller holds the lock from lock() to the drop
\* of the guard and at no other time, so not while it sleeps, and a handler
\* at lock() while the poller sleeps and no other handler holds the lock
\* can take it.
C18_CycleOrder == []C18_SleepsUnlocked /\ [][C18_StepsInOrder]_vars

\* The poller sleeps after its second iteration; a handler that was at
\* lock() has taken the lock and is rendering.
C18_Witness ==
    /\ ppc = "sleep"
    /\ cycle = 2
    /\ AllTagged(tags, 2)
    /\ rpc[1] = "header"
    /\ rpc[2] = "lock"
    /\ mutex.locked /\ mutex.owner = 1

\* C19: every handler that is at lock() eventually returns a document,
\* whatever the external commands do, a command that does not exit
\* included.
C19_EveryRequestAnswered ==
    \A r \in Readers : (rpc[r] = "lock") ~> (rpc[r] = "idle")

Cuts(text) == {i \in 1..Len(text) : text[i] = "\n"}

Before(text, i) == SubSeq(text, 1, i - 1)

After(text, i) == SubSeq(text, i + 1, Len(text))

\* The records of each sample line of ids parsed on its own, in order.
RECURSIVE PnLineByLine(_)
PnLineByLine(ids) ==
    IF Len(ids) = 0 THEN << >>
    ELSE get_pn_info_util(SampleLines[ids[1]]) \o PnLineByLine(Tail(ids))

RECURSIVE JobLineByLine(_)
JobLineByLine(ids) ==
    IF Len(ids) = 0 THEN << >>
    ELSE get_job_info_util(SampleLines[ids[1]]) \o JobLineByLine(Tail(ids))

\* C21: for every way to read the text as a, a newline, b, the records of
\* the text are the records of a followed by the records of b, for
\* get_pn_info_util and for get_job_info_util; so the records of a text are
\* those of its lines, each parsed on its own, in the order of the lines,
\* and a line that is skipped neither changes nor drops the record of
\* another line.
C21_LinesIndependent ==
    /\ fn = "get_pn_info_util" =>
          /\ \A i \in Cuts(arg) :
                ret = get_pn_info_util(Before(arg, i)) \o get_pn_info_util(After(arg, i))
          /\ ret = PnLineByLine(src)
    /\ fn = "get_job_info_util" =>
          /\ \A i \in Cuts(arg) :
                ret = get_job_info_util(Before(arg, i)) \o get_job_info_util(After(arg, i))
          /\ ret = JobLineByLine(src)

\* A line of three items, then a line of ten: the one record is that of
\* the second line.
C21_Witness ==
    /\ fn = "get_pn_info_util"
    /\ src = << 6, 2 >>
    /\ arg = Line_3 \o NL \o Line_pn01 \o NL
    /\ Cuts(arg) # {}
    /\ ret = << PartitionNodeInfo(Items_pn01) >>

\* A step of a request handler (each moves the handler's position).
HandlerStep == rpc' # rpc

C22_HandlerLeavesStatus ==
    /\ HandlerStep => (status' = status /\ tags' = tags)
    /\ (\E r \in Readers : ReaderInCS(r)) => (status' = status /\ tags' = tags)
    /\ (status' # status \/ tags' # tags) =>
          /\ ppc \in {"node_info", "job_info", "stamp"}
          /\ ppc' # ppc
          /\ rpc' = rpc

\* C22: no step of handle_request, in the Ok arm or in the Err arm of
\* lock(), changes node_info, job_info or last_update, and none of them
\* changes between a handler's lock() and its response; the steps that
\* change them are the three assignments of the poller.
C22_ReadOnlyHandler == [][C22_HandlerLeavesStatus]_vars

\* A handler has handed back a report of the second iteration and the
\* status still holds the records and the time the report was made from.
C22_Witness ==
    /\ sent.kind = "report"
    /\ AllTagged(sent.tags, 2)
    /\ AllTagged(tags, 2)
    /\ rpc = [r \in Readers |-> "idle"]
    /\ status.node_info # << >>
    /\ status.job_info # << >>
    /\ status.last_update = strftime(now(clock))

====
